---- MODULE Spec2Model ----
(***************************************************************************)
(* A model of the middle end of the compiler: the lowering of the AST to   *)
(* basic blocks (src/src/ir_builder.rs) and the per-function passes of     *)
(* src/src/cfg.rs (CFG construction, dominators, SSA construction, value   *)
(* numbering, constant folding), driven as in src/src/main.rs.             *)
(*                                                                         *)
(* Vectors are TLA+ sequences, so a block index i of the model is the      *)
(* index i - 1 of the code: the entry block is block 1.                    *)
(***************************************************************************)
EXTENDS Integers, Sequences, FiniteSets, TLC

VARIABLES
    ast,        \* the source program: [args, locals, body]
    pc,         \* position of main's loop body for the function
    function,   \* ir::Function: [name, args, blocks]
    cfg,        \* cfg::CFG: [predecessors, successors, dominators, num_blocks]
    hashOrder,  \* iteration order of the hash sets the passes iterate over
    vnlog,      \* what value_numbering saw at each BinOp
    prefold,    \* the function as fold_constants received it
    passes,     \* the passes main has run on the function
    builder,    \* the IRBuilder while the function is lowered
    todo,       \* the statements of the function still to lower
    op, left, right, result,  \* one call of evaluate_binop
    env,        \* the values of the variables while the function is executed
    at,         \* the block and the primitive that the execution is at
    failure,    \* the message of the Fail the execution ended in
    touched,    \* the operands the executed GetElt and Load primitives read memory at
    tokenizer,  \* the Tokenizer: text, current, cached
    taken,      \* the tokens that the calls of next returned, in order
    peeked      \* the token the last call returned if that call was a peek

\* the state of an execution of the function
run == <<env, at, failure, touched>>

\* the state of a tokenizer and what its caller saw
lexer == <<tokenizer, taken, peeked>>

vars == <<ast, pc, function, cfg, hashOrder, vnlog, prefold, passes, builder, todo, op, left, right, result,
          run, lexer>>

(***************************************************************************)
(* Bounds of the model.                                                    *)
(***************************************************************************)
\* i64 is modelled as a two's complement integer of WordBits bits
WordBits == 6
\* the number of statements of a function body
MaxStmts == 2

(***************************************************************************)
(* ir.rs: values, primitives, control transfers, blocks.                   *)
(***************************************************************************)
Constant(c) == [kind |-> "Constant", c |-> c]
Variable(n) == [kind |-> "Variable", name |-> n]
Global(n) == [kind |-> "Global", name |-> n]

Assign(dest, value) == [prim |-> "Assign", dest |-> dest, value |-> value]
BinOp(dest, lhs, o, rhs) == [prim |-> "BinOp", dest |-> dest, lhs |-> lhs, op |-> o, rhs |-> rhs]
Call(dest, func, receiver, args) ==
    [prim |-> "Call", dest |-> dest, func |-> func, receiver |-> receiver, args |-> args]
Phi(dest, args) == [prim |-> "Phi", dest |-> dest, args |-> args]
Alloc(dest, size) == [prim |-> "Alloc", dest |-> dest, size |-> size]
Print_(val) == [prim |-> "Print", val |-> val]
GetElt(dest, arr, idx) == [prim |-> "GetElt", dest |-> dest, arr |-> arr, idx |-> idx]
SetElt(arr, idx, val) == [prim |-> "SetElt", arr |-> arr, idx |-> idx, val |-> val]
Load(dest, addr) == [prim |-> "Load", dest |-> dest, addr |-> addr]
Store(addr, val) == [prim |-> "Store", addr |-> addr, val |-> val]

Jump(target) == [ct |-> "Jump", target |-> target]
Branch(cond, then_lab, else_lab) ==
    [ct |-> "Branch", cond |-> cond, then_lab |-> then_lab, else_lab |-> else_lab]
Return(val) == [ct |-> "Return", val |-> val]
Fail(message) == [ct |-> "Fail", message |-> message]

BasicBlock(label, primitives, control_transfer) ==
    [label |-> label, primitives |-> primitives, control_transfer |-> control_transfer]

(***************************************************************************)
(* ir_builder.rs: the IRBuilder.  A builder value b carries the fields of  *)
(* the struct that lowering a function body reads or writes.               *)
(***************************************************************************)
\* the classes of the source program: one class A with one field and one method
Classes == << [name |-> "A", fields |-> <<"f">>, methods |-> <<"m">>] >>

\* position of elem in seq, counted from 0 (the ids handed out by next_field_id / next_method_id)
IndexOf(seq, elem) == (CHOOSE i \in 1..Len(seq) : seq[i] = elem) - 1

\* gen_class_metadata, first loop: the global id of a field name / method name
global_field_ids(field) == IndexOf(Classes[1].fields, field)
global_method_ids(method) == IndexOf(Classes[1].methods, method)

\* gen_class_metadata: ClassMetadata.field_count of a class
field_count(class_name) ==
    Len((CHOOSE c \in {Classes[i] : i \in 1..Len(Classes)} : c.name = class_name).fields)

NewBuilder(label) ==
    [temp_counter |-> 0,
     block_counter |-> 0,
     current_block |-> BasicBlock(label, <<>>, Return(Constant(0))),
     current_function_blocks |-> <<>>,
     current_block_has_explicit_return |-> FALSE]

\* gen_unique_variable and gen_unique_label: the name that the call number k + 1 made
\* from builder b returns; TakeNames is the counter increments of temps and labels calls
gen_unique_variable(b, prefix, k) == prefix \o ToString(b.temp_counter + k)
gen_unique_label(b, prefix, k) == prefix \o ToString(b.block_counter + k)
TakeNames(b, temps, labels) ==
    [b EXCEPT !.temp_counter = @ + temps, !.block_counter = @ + labels]

push_instruction(b, primitive) ==
    [b EXCEPT !.current_block.primitives = Append(@, primitive)]

finish_block(b, transfer, next_label) ==
    [b EXCEPT !.current_function_blocks =
                  Append(@, [b.current_block EXCEPT !.control_transfer = transfer]),
              !.current_block = BasicBlock(next_label, <<>>, Return(Constant(0))),
              !.current_block_has_explicit_return = FALSE]

\* the three finish_block calls that end every checked expression:
\* the ok block jumps to final, then the two failure blocks
FinishChecked(b, final_label, bad1, msg1, bad2, msg2) ==
    finish_block(finish_block(finish_block(b, Jump(final_label), bad1),
                              Fail(msg1), bad2),
                 Fail(msg2), final_label)

\* Expression::Binop with op == Operator::Equals
GenEquals(b, left_, right_) ==
    LET raw_result == gen_unique_variable(b, "rawResult", 0)
        tagged_result == gen_unique_variable(b, "tagged_result", 1)
        result_ == gen_unique_variable(b, "result", 2)
        b1 == push_instruction(TakeNames(b, 3, 0), BinOp(raw_result, left_, "==", right_))
        b2 == push_instruction(b1, BinOp(tagged_result, Variable(raw_result), "*", Constant(2)))
        b3 == push_instruction(b2, BinOp(result_, Variable(tagged_result), "+", Constant(1)))
    IN  [b |-> b3, val |-> Variable(result_)]

\* Expression::Binop with op == Operator::NotEquals
GenNotEquals(b, left_, right_) ==
    LET eq_result == gen_unique_variable(b, "eqResult", 0)
        flipped == gen_unique_variable(b, "flipped", 1)
        tagged_result == gen_unique_variable(b, "tagged_result", 2)
        result_ == gen_unique_variable(b, "result", 3)
        b1 == push_instruction(TakeNames(b, 4, 0), BinOp(eq_result, left_, "==", right_))
        b2 == push_instruction(b1, BinOp(flipped, Variable(eq_result), "^", Constant(1)))
        b3 == push_instruction(b2, BinOp(tagged_result, Variable(flipped), "*", Constant(2)))
        b4 == push_instruction(b3, BinOp(result_, Variable(tagged_result), "+", Constant(1)))
    IN  [b |-> b4, val |-> Variable(result_)]

\* Expression::Binop, every other operator: tag checks, untag, compute, retag
GenArith(b, left_, o, right_) ==
    LET left_tag == gen_unique_variable(b, "numTag", 0)
        bad_num_label == gen_unique_label(b, "badnum", 0)
        check_right_label == gen_unique_label(b, "checkRight", 1)
        right_tag == gen_unique_variable(b, "numTag", 1)
        do_math_label == gen_unique_label(b, "doMath", 2)
        bad_num_label2 == gen_unique_label(b, "badnum", 3)
        left_untagged == gen_unique_variable(b, "untagged", 2)
        right_untagged == gen_unique_variable(b, "untagged", 3)
        raw_result == gen_unique_variable(b, "rawResult", 4)
        tagged_result == gen_unique_variable(b, "tagged_result", 5)
        result_ == gen_unique_variable(b, "result", 6)
        final_label == gen_unique_label(b, "final", 4)
        b1 == push_instruction(TakeNames(b, 7, 5), BinOp(left_tag, left_, "&", Constant(1)))
        b2 == finish_block(b1, Branch(Variable(left_tag), check_right_label, bad_num_label),
                           check_right_label)
        b3 == push_instruction(b2, BinOp(right_tag, right_, "&", Constant(1)))
        b4 == finish_block(b3, Branch(Variable(right_tag), do_math_label, bad_num_label2),
                           do_math_label)
        b5 == push_instruction(b4, BinOp(left_untagged, left_, "/", Constant(2)))
        b6 == push_instruction(b5, BinOp(right_untagged, right_, "/", Constant(2)))
        b7 == push_instruction(b6, BinOp(raw_result, Variable(left_untagged), o,
                                         Variable(right_untagged)))
        b8 == push_instruction(b7, BinOp(tagged_result, Variable(raw_result), "*", Constant(2)))
        b9 == push_instruction(b8, BinOp(result_, Variable(tagged_result), "+", Constant(1)))
    IN  [b |-> FinishChecked(b9, final_label, bad_num_label, "NotANumber",
                             bad_num_label2, "NotANumber"),
         val |-> Variable(result_)]

\* Expression::ClassRef
GenClassRef(b, class_name) ==
    LET obj_addr == gen_unique_variable(b, "objAddr", 0)
        fields_addr == gen_unique_variable(b, "fieldsAddr", 1)
        b1 == push_instruction(TakeNames(b, 2, 0),
                               Alloc(obj_addr, 2 + field_count(class_name)))
        b2 == push_instruction(b1, Store(Variable(obj_addr), Global("vtbl" \o class_name)))
        b3 == push_instruction(b2, BinOp(fields_addr, Variable(obj_addr), "+", Constant(8)))
        b4 == push_instruction(b3, Store(Variable(fields_addr),
                                         Global("fields" \o class_name)))
    IN  [b |-> b4, val |-> Variable(obj_addr)]

\* the prologue shared by FieldRead and FieldWrite, from builder b: tag check of the
\* base, then the lookup of the field's offset in the field map and the check that it
\* is not 0.  It takes four temps and four labels.
GenFieldLookup(b, base_val, field_name) ==
    LET tag == gen_unique_variable(b, "tag", 0)
        bad_ptr_label == gen_unique_label(b, "badptr", 0)
        continue_label == gen_unique_label(b, "firstStore", 1)
        field_map_addr == gen_unique_variable(b, "fieldMapAddr", 1)
        field_map == gen_unique_variable(b, "fieldMap", 2)
        offset == gen_unique_variable(b, "offset", 3)
        bad_field_label == gen_unique_label(b, "badfield", 2)
        load_label == gen_unique_label(b, "load", 3)
        b1 == push_instruction(TakeNames(b, 4, 4), BinOp(tag, base_val, "&", Constant(1)))
        b2 == finish_block(b1, Branch(Variable(tag), bad_ptr_label, continue_label),
                           continue_label)
        b3 == push_instruction(b2, BinOp(field_map_addr, base_val, "+", Constant(8)))
        b4 == push_instruction(b3, Load(field_map, Variable(field_map_addr)))
        b5 == push_instruction(b4, GetElt(offset, Variable(field_map),
                                          Constant(global_field_ids(field_name))))
    IN  finish_block(b5, Branch(Variable(offset), load_label, bad_field_label), load_label)

\* Expression::FieldRead once the base is lowered
GenFieldRead(b, base_val, field_name) ==
    LET result_ == gen_unique_variable(b, "result", 4)
        b1 == push_instruction(TakeNames(GenFieldLookup(b, base_val, field_name), 1, 1),
                               GetElt(result_, base_val,
                                      Variable(gen_unique_variable(b, "offset", 3))))
    IN  [b |-> FinishChecked(b1, gen_unique_label(b, "final", 4),
                             gen_unique_label(b, "badptr", 0), "NotAPointer",
                             gen_unique_label(b, "badfield", 2), "NoSuchField"),
         val |-> Variable(result_)]

\* Expression::FieldWrite once the base and the value are lowered
GenFieldWrite(b, base_val, field_name, value) ==
    LET b1 == push_instruction(TakeNames(GenFieldLookup(b, base_val, field_name), 0, 1),
                               SetElt(base_val, Variable(gen_unique_variable(b, "offset", 3)),
                                      value))
    IN  [b |-> FinishChecked(b1, gen_unique_label(b, "final", 4),
                             gen_unique_label(b, "badptr", 0), "NotAPointer",
                             gen_unique_label(b, "badfield", 2), "NoSuchField"),
         val |-> Constant(0)]

\* Expression::MethodCall from the lowered base to the lookup of the method: the tag
\* check, the vtable load and the check of the method pointer.  Four temps, four labels.
GenMethodLookup(b, base_val, method_name) ==
    LET tag == gen_unique_variable(b, "tag", 0)
        badptr == gen_unique_label(b, "badptr", 0)
        load == gen_unique_label(b, "load", 1)
        vtable == gen_unique_variable(b, "vtable", 1)
        method_ptr == gen_unique_variable(b, "methodPtr", 2)
        badmethod == gen_unique_label(b, "badmethod", 2)
        call_and_print == gen_unique_label(b, "callAndPrint", 3)
        b1 == push_instruction(TakeNames(b, 4, 4), BinOp(tag, base_val, "&", Constant(1)))
        b2 == finish_block(b1, Branch(Variable(tag), badptr, load), load)
        b3 == push_instruction(b2, Load(vtable, base_val))
        b4 == push_instruction(b3, GetElt(method_ptr, Variable(vtable),
                                          Constant(global_method_ids(method_name))))
    IN  finish_block(b4, Branch(Variable(method_ptr), call_and_print, badmethod),
                     call_and_print)

\* Expression::MethodCall once the arguments are lowered: b is the builder at the
\* lookup, arguments the builder and the values after the arguments
GenCall(b, base_val, arguments) ==
    LET result_ == gen_unique_variable(b, "callResult", 3)
        b1 == push_instruction(TakeNames(arguments.b, 0, 1),
                               Call(result_, Variable(gen_unique_variable(b, "methodPtr", 2)),
                                    base_val, arguments.vals))
    IN  [b |-> FinishChecked(b1, gen_unique_label(arguments.b, "final", 0),
                             gen_unique_label(b, "badptr", 0), "NotAPointer",
                             gen_unique_label(b, "badmethod", 2), "NoSuchMethod"),
         val |-> Variable(result_)]

RECURSIVE gen_expression(_, _)
RECURSIVE GenArguments(_, _)

\* MethodCall: args.iter().map(|a| self.gen_expression(a)).collect()
GenArguments(b, args) ==
    IF args = <<>> THEN [b |-> b, vals |-> <<>>]
    ELSE LET first == gen_expression(b, Head(args))
             rest == GenArguments(first.b, Tail(args))
         IN  [b |-> rest.b, vals |-> <<first.val>> \o rest.vals]

\* Binop once both operands are lowered
GenBinop(b, left_, o, right_) ==
    IF o = "==" THEN GenEquals(b, left_, right_)
    ELSE IF o = "!=" THEN GenNotEquals(b, left_, right_)
    ELSE GenArith(b, left_, o, right_)

gen_expression(b, expression) ==
    CASE expression.e = "Constant" -> [b |-> b, val |-> Constant(2 * expression.n + 1)]
      [] expression.e = "Variable" -> [b |-> b, val |-> Variable(expression.name)]
      [] expression.e = "ThisExpr" -> [b |-> b, val |-> Variable("this")]
      [] expression.e = "Binop" ->
            LET l == gen_expression(b, expression.lhs)
                r == gen_expression(l.b, expression.rhs)
            IN  GenBinop(r.b, l.val, expression.op, r.val)
      [] expression.e = "ClassRef" -> GenClassRef(b, expression.class_name)
      [] expression.e = "FieldRead" ->
            LET base == gen_expression(b, expression.base)
            IN  GenFieldRead(base.b, base.val, expression.field_name)
      [] expression.e = "FieldWrite" ->
            LET base == gen_expression(b, expression.base)
                v == gen_expression(base.b, expression.value)
            IN  GenFieldWrite(v.b, base.val, expression.field_name, v.val)
      [] expression.e = "MethodCall" ->
            LET base == gen_expression(b, expression.base)
            IN  GenCall(base.b, base.val,
                        GenArguments(GenMethodLookup(base.b, base.val,
                                                     expression.method_name),
                                     expression.args))

RECURSIVE gen_statement(_, _)
RECURSIVE GenStatements(_, _)

\* for statement in body { self.gen_statement(statement) }
GenStatements(b, body) ==
    IF body = <<>> THEN b
    ELSE GenStatements(gen_statement(b, Head(body)), Tail(body))

\* the transfer that ends a branch or loop body: its explicit return, or a jump
BodyTransfer(b, label) ==
    IF b.current_block_has_explicit_return
    THEN b.current_block.control_transfer
    ELSE Jump(label)

\* the finish_block that ends a branch or loop body
FinishBody(b, label, next_label) == finish_block(b, BodyTransfer(b, label), next_label)

\* untaggedCond = cond / 2, and the Branch on it that ends the block
GenCondition(b, cond, then_lab, else_lab, next_label) ==
    finish_block(push_instruction(TakeNames(b, 1, 0),
                                  BinOp(gen_unique_variable(b, "untaggedCond", 0),
                                        cond, "/", Constant(2))),
                 Branch(Variable(gen_unique_variable(b, "untaggedCond", 0)),
                        then_lab, else_lab),
                 next_label)

\* Statement::Print once the expression is lowered
GenPrint(b, val) ==
    push_instruction(push_instruction(TakeNames(b, 1, 0),
                                      BinOp(gen_unique_variable(b, "untagged", 0),
                                            val, "/", Constant(2))),
                     Print_(Variable(gen_unique_variable(b, "untagged", 0))))

\* Statement::If once the condition is lowered
GenIf(b, cond, then_body, else_body) ==
    LET then_label == gen_unique_label(b, "then", 0)
        else_label == gen_unique_label(b, "else", 1)
        merge_label == gen_unique_label(b, "merge", 2)
        b1 == GenCondition(TakeNames(b, 0, 3), cond, then_label, else_label, then_label)
        b2 == FinishBody(GenStatements(b1, then_body), merge_label, else_label)
    IN  FinishBody(GenStatements(b2, else_body), merge_label, merge_label)

\* Statement::IfOnly: the labels are taken before the condition is lowered
GenIfOnly(b, condition, body) ==
    LET then_label == gen_unique_label(b, "then", 0)
        merge_label == gen_unique_label(b, "merge", 1)
        c == gen_expression(TakeNames(b, 0, 2), condition)
        b1 == GenCondition(c.b, c.val, then_label, merge_label, then_label)
    IN  FinishBody(GenStatements(b1, body), merge_label, merge_label)

\* Statement::While: the labels are taken and the block is ended before the condition
GenWhile(b, condition, body) ==
    LET cond_label == gen_unique_label(b, "condLabel", 0)
        body_label == gen_unique_label(b, "whileBody", 1)
        merge_label == gen_unique_label(b, "whileMerge", 2)
        c == gen_expression(finish_block(TakeNames(b, 0, 3), Jump(cond_label), cond_label),
                            condition)
        b1 == GenCondition(c.b, c.val, body_label, merge_label, body_label)
    IN  FinishBody(GenStatements(b1, body), cond_label, merge_label)

gen_statement(b, statement) ==
    CASE statement.s = "Assignment" ->
            LET v == gen_expression(b, statement.expression)
            IN  push_instruction(v.b, Assign(statement.variable, v.val))
      [] statement.s = "Discard" -> gen_expression(b, statement.expression).b
      [] statement.s = "Print" ->
            LET v == gen_expression(b, statement.expression)
            IN  GenPrint(v.b, v.val)
      [] statement.s = "Return" ->
            LET v == gen_expression(b, statement.expression)
            IN  [v.b EXCEPT !.current_block.control_transfer = Return(v.val),
                            !.current_block_has_explicit_return = TRUE]
      [] statement.s = "FieldWrite" ->
            gen_expression(b, [e |-> "FieldWrite", base |-> statement.base,
                               field_name |-> statement.field, value |-> statement.value]).b
      [] statement.s = "If" ->
            LET c == gen_expression(b, statement.condition)
            IN  GenIf(c.b, c.val, statement.then_body, statement.else_body)
      [] statement.s = "IfOnly" -> GenIfOnly(b, statement.condition, statement.body)
      [] statement.s = "While" -> GenWhile(b, statement.condition, statement.body)

\* locals that start as the raw 0 instead of the tagged 0
InitLocalsToZero(b, locals) ==
    [b EXCEPT !.current_block.primitives =
                  @ \o [k \in 1..Len(locals) |-> Assign(locals[k], Constant(0))]]

\* for local in locals { push Assign{local, Constant(1)} }
RECURSIVE InitLocals(_, _)
InitLocals(b, locals) ==
    IF locals = <<>> THEN b
    ELSE InitLocals(push_instruction(b, Assign(Head(locals), Constant(1))), Tail(locals))

finish_function(b, name, args) ==
    LET last == IF b.current_block.control_transfer.ct # "Return"
                THEN [b.current_block EXCEPT !.control_transfer = Return(Constant(0))]
                ELSE b.current_block
    IN  [name |-> name, args |-> args, blocks |-> Append(b.current_function_blocks, last)]


(***************************************************************************)
(* cfg.rs: CFG::new.                                                       *)
(***************************************************************************)
NumBlocks(f) == Len(f.blocks)

\* block_map.get(label): the loop inserts every label, a later block replacing an earlier one
block_map(f, label) ==
    LET hits == {i \in 1..NumBlocks(f) : f.blocks[i].label = label}
    IN  CHOOSE i \in hits : \A j \in hits : j <= i

\* what the second loop pushes on successors[idx]
SuccessorsOf(f, idx) ==
    LET t == f.blocks[idx].control_transfer
    IN  CASE t.ct = "Branch" -> <<block_map(f, t.then_lab), block_map(f, t.else_lab)>>
          [] t.ct = "Jump" -> <<block_map(f, t.target)>>
          [] t.ct = "Fail" -> <<>>
          [] t.ct = "Return" -> <<>>

\* a CFG::new that records a block as predecessor of its first successor only
PushFirstPredecessor(predecessors, succs, idx) ==
    IF succs = <<>> THEN predecessors
    ELSE [predecessors EXCEPT ![Head(succs)] = Append(@, idx)]

\* predecessors[s].push(idx) for every s of succs, in order
RECURSIVE PushPredecessor(_, _, _)
PushPredecessor(predecessors, succs, idx) ==
    IF succs = <<>> THEN predecessors
    ELSE PushPredecessor([predecessors EXCEPT ![Head(succs)] = Append(@, idx)],
                         Tail(succs), idx)

\* the second loop of CFG::new from block idx on
RECURSIVE BuildPredecessors(_, _, _)
BuildPredecessors(f, idx, predecessors) ==
    IF idx > NumBlocks(f) THEN predecessors
    ELSE BuildPredecessors(f, idx + 1,
                           PushPredecessor(predecessors, SuccessorsOf(f, idx), idx))

CFG_new(f) ==
    [num_blocks |-> NumBlocks(f),
     successors |-> [idx \in 1..NumBlocks(f) |-> SuccessorsOf(f, idx)],
     predecessors |-> BuildPredecessors(f, 1, [idx \in 1..NumBlocks(f) |-> <<>>]),
     dominators |-> <<>>]

Range(seq) == {seq[i] : i \in 1..Len(seq)}

(***************************************************************************)
(* cfg.rs: dominator sets.                                                 *)
(***************************************************************************)
\* new_dom: the first predecessor's set intersected with the others', plus idx
\* a compute_dominator_sets without new_dom.insert(idx)
NewDomWithoutSelf(dominator_sets, preds, idx) ==
    {d \in dominator_sets[preds[1]] :
        \A k \in 2..Len(preds) : d \in dominator_sets[preds[k]]}

\* a compute_dominator_sets that takes the first predecessor's set alone
NewDomFirstPredecessor(dominator_sets, preds, idx) ==
    dominator_sets[preds[1]] \cup {idx}

NewDom(dominator_sets, preds, idx) ==
    {d \in dominator_sets[preds[1]] :
        \A k \in 2..Len(preds) : d \in dominator_sets[preds[k]]} \cup {idx}

\* one run of the for loop inside `while changed`, from block idx on
RECURSIVE DominatorPass(_, _, _, _)
DominatorPass(c, dominator_sets, idx, changed) ==
    IF idx > c.num_blocks THEN [dominator_sets |-> dominator_sets, changed |-> changed]
    ELSE LET preds == c.predecessors[idx]
         IN  IF preds = <<>> THEN DominatorPass(c, dominator_sets, idx + 1, changed)
             ELSE LET new_dom == NewDom(dominator_sets, preds, idx)
                  IN  IF new_dom # dominator_sets[idx]
                      THEN DominatorPass(c, [dominator_sets EXCEPT ![idx] = new_dom],
                                         idx + 1, TRUE)
                      ELSE DominatorPass(c, dominator_sets, idx + 1, changed)

\* while changed { ... }
RECURSIVE DominatorLoop(_, _)
DominatorLoop(c, dominator_sets) ==
    LET pass == DominatorPass(c, dominator_sets, 2, FALSE)
    IN  IF pass.changed THEN DominatorLoop(c, pass.dominator_sets)
        ELSE pass.dominator_sets

compute_dominator_sets(c) ==
    LET all_blocks == 1..c.num_blocks
    IN  DominatorLoop(c, [idx \in 1..c.num_blocks |->
                              IF idx = 1 THEN {1} ELSE all_blocks])

(***************************************************************************)
(* cfg.rs: immediate dominators.  None is 0.                               *)
(*                                                                         *)
(* max_by_key returns the last of the maximal elements in the iteration    *)
(* order of strict_dominators, a clone of dominators[idx].  A dominator    *)
(* set that still holds every block is a clone of all_blocks               *)
(* (compute_dominator_sets replaces a set only by a different one), and a  *)
(* clone iterates in the order of its original, so all these sets are      *)
(* iterated in one order: order is the end of that order.                  *)
(***************************************************************************)
MaxKey(c, S) ==
    CHOOSE m \in {Cardinality(c.dominators[d]) : d \in S} :
        \A d \in S : Cardinality(c.dominators[d]) <= m

\* the strict dominators of idx with the largest dominator set
Deepest(c, idx) ==
    LET strict_dominators == c.dominators[idx] \ {idx}
    IN  {d \in strict_dominators :
            Cardinality(c.dominators[d]) = MaxKey(c, strict_dominators)}

\* the last element of seq that is in S
RECURSIVE LastIn(_, _)
LastIn(seq, S) ==
    IF seq[Len(seq)] \in S THEN seq[Len(seq)] ELSE LastIn(SubSeq(seq, 1, Len(seq) - 1), S)

max_by_key(c, idx, order) ==
    LET M == Deepest(c, idx)
    IN  IF Cardinality(M) = 1 THEN CHOOSE d \in M : TRUE ELSE LastIn(order, M)

compute_immediate_dominators(c, order) ==
    [idx \in 1..c.num_blocks |->
        IF idx = 1 \/ c.dominators[idx] \ {idx} = {} THEN 0
        ELSE max_by_key(c, idx, order)]

\* the blocks among which some max_by_key has to break a tie
Tied(c) ==
    UNION {Deepest(c, idx) : idx \in {i \in 2..c.num_blocks : Cardinality(Deepest(c, i)) > 1}}

\* the ends an iteration order can have that decide every tie: the last two tied blocks
IterationOrders(c) ==
    IF Tied(c) = {} THEN {<<>>}
    ELSE {<<second, last>> : second \in Tied(c), last \in Tied(c)} \
         {<<d, d>> : d \in Tied(c)}

(***************************************************************************)
(* cfg.rs: dominance frontiers.                                            *)
(***************************************************************************)
\* the inner while loop for one predecessor of idx: the runners that get idx in
\* their frontier, and whether the loop ends.  The loop state is runner alone, so
\* it runs forever exactly when a runner comes back.
RECURSIVE RunnerWalk(_, _, _, _)
RunnerWalk(immediate_dominators, idx, runner, seen) ==
    IF runner = immediate_dominators[idx] THEN [runners |-> seen, ends |-> TRUE]
    ELSE IF runner \in seen THEN [runners |-> seen, ends |-> FALSE]
    ELSE IF immediate_dominators[runner] # 0
         THEN RunnerWalk(immediate_dominators, idx, immediate_dominators[runner],
                         seen \cup {runner})
         ELSE [runners |-> seen \cup {runner}, ends |-> TRUE]

\* the (idx, pred) pairs the two for loops visit
JoinEdges(c) ==
    UNION {{<<idx, c.predecessors[idx][k]>> : k \in 1..Len(c.predecessors[idx])} :
              idx \in {i \in 1..c.num_blocks : Len(c.predecessors[i]) >= 2}}

\* whether compute_dominance_frontiers returns
FrontiersEnd(c, immediate_dominators) ==
    \A e \in JoinEdges(c) : RunnerWalk(immediate_dominators, e[1], e[2], {}).ends

compute_dominance_frontiers(c, immediate_dominators) ==
    [runner \in 1..c.num_blocks |->
        {e[1] : e \in {x \in JoinEdges(c) :
                          runner \in RunnerWalk(immediate_dominators, x[1], x[2], {}).runners}}]

(***************************************************************************)
(* cfg.rs: phi insertion.                                                  *)
(***************************************************************************)
\* the keys of assignments: the variables that are the dest of an Assign
AssignedVars(f) ==
    UNION {{p.dest : p \in {q \in Range(f.blocks[i].primitives) : q.prim = "Assign"}} :
              i \in 1..NumBlocks(f)}

\* assignments[var]
collect_assignments(f, var) ==
    {idx \in 1..NumBlocks(f) :
        \E p \in Range(f.blocks[idx].primitives) : p.prim = "Assign" /\ p.dest = var}

\* while let Some(idx) = work_stack.pop(): the blocks that end in has_phi_func
RECURSIVE WorkLoop(_, _, _)
WorkLoop(dominance_frontiers, work_stack, has_phi_func) ==
    IF work_stack = <<>> THEN has_phi_func
    ELSE LET idx == work_stack[Len(work_stack)]
             rest == SubSeq(work_stack, 1, Len(work_stack) - 1)
             fresh == dominance_frontiers[idx] \ has_phi_func
             pushed == CHOOSE q \in [1..Cardinality(fresh) -> fresh] : Range(q) = fresh
         IN  WorkLoop(dominance_frontiers, rest \o pushed, has_phi_func \cup fresh)

\* some sequence of the elements of set S, each once
SeqOf(S) == CHOOSE q \in [1..Cardinality(S) -> S] : Range(q) = S

\* phis: block idx -> the variables that need a phi at its head
PhiVars(f, dominance_frontiers, idx) ==
    {var \in AssignedVars(f) :
        idx \in WorkLoop(dominance_frontiers, SeqOf(collect_assignments(f, var)), {})}

\* every sequence of the elements of set S, each once: the orders a HashSet iterates in
Permutations_(S) == {q \in [1..Cardinality(S) -> S] : Range(q) = S}

\* an insert_phi_functions that gives every Phi an argument for the first predecessor only
RECURSIVE InsertPhisFirstPredecessor(_, _, _)
InsertPhisFirstPredecessor(primitives, var_order, pred_labels) ==
    IF var_order = <<>> THEN primitives
    ELSE InsertPhisFirstPredecessor(
            <<Phi(Head(var_order),
                  [k \in 1..1 |-> <<pred_labels[k], Variable(Head(var_order))>>])>>
               \o primitives,
            Tail(var_order), pred_labels)

\* for var in vars { block.primitives.insert(0, Phi{...}) } with vars iterated as var_order
RECURSIVE InsertPhis(_, _, _)
InsertPhis(primitives, var_order, pred_labels) ==
    IF var_order = <<>> THEN primitives
    ELSE InsertPhis(
            <<Phi(Head(var_order),
                  [k \in 1..Len(pred_labels) |-> <<pred_labels[k], Variable(Head(var_order))>>])>>
               \o primitives,
            Tail(var_order), pred_labels)

\* phi_order[idx] is the order in which the set phis[idx] is iterated
insert_phi_functions(c, f, phi_order) ==
    [f EXCEPT !.blocks = [idx \in 1..NumBlocks(f) |->
        [f.blocks[idx] EXCEPT !.primitives =
            InsertPhis(@, phi_order[idx],
                       [k \in 1..Len(c.predecessors[idx]) |->
                           f.blocks[c.predecessors[idx][k]].label])]]]

\* the iteration orders of the sets in phis, for the blocks from idx on
RECURSIVE PhiOrdersFrom(_, _, _)
PhiOrdersFrom(f, dominance_frontiers, idx) ==
    IF idx > NumBlocks(f) THEN {<<>>}
    ELSE {<<q>> \o rest : q \in Permutations_(PhiVars(f, dominance_frontiers, idx)),
                          rest \in PhiOrdersFrom(f, dominance_frontiers, idx + 1)}

PhiOrders(f, dominance_frontiers) == PhiOrdersFrom(f, dominance_frontiers, 1)

(***************************************************************************)
(* cfg.rs: renaming.                                                       *)
(***************************************************************************)
build_dominator_tree(c, immediates) ==
    [p \in 1..c.num_blocks |->
        SelectSeq([child \in 1..c.num_blocks |-> child],
                  LAMBDA child : immediates[child] = p)]

\* stacks.get(name).last(): "" when the name has no stack or an empty one
Top(stacks, name) ==
    IF name \in DOMAIN stacks /\ stacks[name] # <<>>
    THEN stacks[name][Len(stacks[name])] ELSE ""

rename_value(val, stacks) ==
    IF val.kind = "Variable" /\ Top(stacks, val.name) # ""
    THEN Variable(Top(stacks, val.name)) ELSE val

rename_uses(prim, stacks) ==
    CASE prim.prim = "Assign" -> [prim EXCEPT !.value = rename_value(@, stacks)]
      [] prim.prim = "BinOp" -> [prim EXCEPT !.lhs = rename_value(@, stacks),
                                             !.rhs = rename_value(@, stacks)]
      [] prim.prim = "Call" ->
            [prim EXCEPT !.func = rename_value(@, stacks),
                         !.receiver = rename_value(@, stacks),
                         !.args = [k \in 1..Len(prim.args) |-> rename_value(prim.args[k], stacks)]]
      [] prim.prim = "Print" -> [prim EXCEPT !.val = rename_value(@, stacks)]
      [] prim.prim = "GetElt" -> [prim EXCEPT !.arr = rename_value(@, stacks),
                                              !.idx = rename_value(@, stacks)]
      [] prim.prim = "SetElt" -> [prim EXCEPT !.arr = rename_value(@, stacks),
                                              !.idx = rename_value(@, stacks),
                                              !.val = rename_value(@, stacks)]
      [] prim.prim = "Load" -> [prim EXCEPT !.addr = rename_value(@, stacks)]
      [] prim.prim = "Store" -> [prim EXCEPT !.addr = rename_value(@, stacks),
                                             !.val = rename_value(@, stacks)]
      [] prim.prim = "Phi" -> prim
      [] prim.prim = "Alloc" -> prim

rename_control_transfer(transfer, stacks) ==
    CASE transfer.ct = "Branch" -> [transfer EXCEPT !.cond = rename_value(@, stacks)]
      [] transfer.ct = "Return" -> [transfer EXCEPT !.val = rename_value(@, stacks)]
      [] transfer.ct = "Jump" -> transfer
      [] transfer.ct = "Fail" -> transfer

\* get_dest(prim).is_some()
get_dest(prim) == prim.prim \in {"Assign", "BinOp", "Call", "Phi", "Alloc", "GetElt", "Load"}

\* stacks.entry(name).or_insert_with(Vec::new).push(new_name)
PushName(stacks, name, new_name) ==
    IF name \in DOMAIN stacks THEN [stacks EXCEPT ![name] = Append(@, new_name)]
    ELSE (name :> <<new_name>>) @@ stacks

\* the loop over the primitives of a block, from primitive i on;
\* r is [primitives, stacks, counter, pushed], pushed the old names in push order
RECURSIVE RenamePrimitives(_, _)
RenamePrimitives(r, i) ==
    IF i > Len(r.primitives) THEN r
    ELSE LET used == rename_uses(r.primitives[i], r.stacks)
         IN  IF get_dest(used)
             THEN LET old_name == used.dest
                      new_name == ToString(r.counter)
                  IN  RenamePrimitives(
                          [primitives |-> [r.primitives EXCEPT ![i] =
                                              [used EXCEPT !.dest = new_name]],
                           stacks |-> PushName(r.stacks, old_name, new_name),
                           counter |-> r.counter + 1,
                           pushed |-> Append(r.pushed, old_name)], i + 1)
             ELSE RenamePrimitives([r EXCEPT !.primitives[i] = used], i + 1)

\* the phi arguments of a successor: every argument labelled this_label gets the
\* current name of the variable it holds
FillPhiArgs(primitives, this_label, stacks) ==
    [k \in 1..Len(primitives) |->
        IF primitives[k].prim = "Phi"
        THEN [primitives[k] EXCEPT !.args =
                [a \in 1..Len(primitives[k].args) |->
                    IF primitives[k].args[a][1] = this_label
                    THEN <<this_label, rename_value(primitives[k].args[a][2], stacks)>>
                    ELSE primitives[k].args[a]]]
        ELSE primitives[k]]

\* for succ_idx in successors { ... }
RECURSIVE FillSuccessors(_, _, _, _)
FillSuccessors(blocks, successors, this_label, stacks) ==
    IF successors = <<>> THEN blocks
    ELSE FillSuccessors(
            [blocks EXCEPT ![Head(successors)].primitives =
                FillPhiArgs(@, this_label, stacks)],
            Tail(successors), this_label, stacks)

\* a rename that leaves the names of a block on the stacks when it returns
PopNothing(stacks, pushed) == stacks

\* for (var, count) in pushed { count times stack.pop() }
RECURSIVE PopPushed(_, _)
PopPushed(stacks, pushed) ==
    IF pushed = <<>> THEN stacks
    ELSE PopPushed([stacks EXCEPT ![Head(pushed)] = SubSeq(@, 1, Len(@) - 1)], Tail(pushed))

\* rename; s is [blocks, stacks, counter]
RECURSIVE rename(_, _, _, _)
RECURSIVE RenameChildren(_, _, _, _)

RenameChildren(c, s, children, tree) ==
    IF children = <<>> THEN s
    ELSE RenameChildren(c, rename(c, s, Head(children), tree), Tail(children), tree)

rename(c, s, idx, tree) ==
    LET r == RenamePrimitives([primitives |-> s.blocks[idx].primitives, stacks |-> s.stacks,
                               counter |-> s.counter, pushed |-> <<>>], 1)
        block == [s.blocks[idx] EXCEPT
                     !.primitives = r.primitives,
                     !.control_transfer = rename_control_transfer(@, r.stacks)]
        filled == FillSuccessors([s.blocks EXCEPT ![idx] = block], c.successors[idx],
                                 block.label, r.stacks)
        after == RenameChildren(c, [blocks |-> filled, stacks |-> r.stacks,
                                    counter |-> r.counter], tree[idx], tree)
    IN  [after EXCEPT !.stacks = PopPushed(@, r.pushed)]

\* convert_to_ssa after insert_phi_functions: the tree, then rename from the entry
RenameFunction(c, f, immediates) ==
    [f EXCEPT !.blocks =
        rename(c, [blocks |-> f.blocks, stacks |-> <<>>, counter |-> 0], 1,
               build_dominator_tree(c, immediates)).blocks]

(***************************************************************************)
(* cfg.rs: evaluate_binop on WordBits-bit two's complement integers.       *)
(***************************************************************************)
Modulus == 2 ^ WordBits
MinInt == -(2 ^ (WordBits - 1))
MaxInt == 2 ^ (WordBits - 1) - 1
Word == MinInt..MaxInt

\* the two's complement value of the low WordBits bits of n
Wrap(n) == ((n - MinInt) % Modulus) + MinInt

Abs(n) == IF n < 0 THEN -n ELSE n

\* Rust's `/` on integers rounds towards zero
TruncDiv(l, r) ==
    IF (l < 0) = (r < 0) THEN Abs(l) \div Abs(r) ELSE -(Abs(l) \div Abs(r))

\* bit by bit on the unsigned representations a and b, bits bits wide
RECURSIVE Bitwise(_, _, _, _)
Bitwise(o, a, b, bits) ==
    IF bits = 0 THEN 0
    ELSE LET x == a % 2
             y == b % 2
             bit == CASE o = "|" -> IF x + y > 0 THEN 1 ELSE 0
                      [] o = "&" -> IF x + y = 2 THEN 1 ELSE 0
                      [] o = "^" -> IF x # y THEN 1 ELSE 0
         IN  bit + 2 * Bitwise(o, a \div 2, b \div 2, bits - 1)

Some(v) == [tag |-> "Some", v |-> v]
None == [tag |-> "None"]
\* the call does not return: Rust's `/` panics on overflow
Panics == [tag |-> "Panics"]

evaluate_binop(o, l, r) ==
    CASE o = "+" -> Some(Wrap(l + r))
      [] o = "-" -> Some(Wrap(l - r))
      [] o = "*" -> Some(Wrap(l * r))
      [] o = "/" -> IF r = 0 THEN None
                    ELSE IF l = MinInt /\ r = -1 THEN Panics
                    ELSE Some(TruncDiv(l, r))
      [] o \in {"|", "&", "^"} -> Some(Wrap(Bitwise(o, l % Modulus, r % Modulus, WordBits)))
      [] o = "==" -> Some(IF l = r THEN 1 ELSE 0)
      [] o = "<" -> Some(IF l < r THEN 1 ELSE 0)
      [] o = ">" -> Some(IF l > r THEN 1 ELSE 0)
      [] OTHER -> None

(***************************************************************************)
(* cfg.rs: constant folding.                                               *)
(***************************************************************************)
\* a HashMap: insert replaces the value of a key that is present
Insert(map, k, v) == (k :> v) @@ map

\* a try_fold_constant that never looks a variable up
ResolveConstantsOnly(val, const_map) ==
    IF val.kind = "Constant" THEN Some(val.c) ELSE None

\* left_val / right_val of try_fold_constant
Resolve(val, const_map) ==
    CASE val.kind = "Constant" -> Some(val.c)
      [] val.kind = "Variable" ->
            IF val.name \in DOMAIN const_map THEN Some(const_map[val.name]) ELSE None
      [] OTHER -> None

\* a try_fold_constant that also turns a copy of a known constant into that constant
try_fold_constant_copies(prim, const_map) ==
    IF prim.prim = "Assign" /\ Resolve(prim.value, const_map).tag = "Some"
                            /\ prim.value.kind = "Variable"
    THEN Some(Assign(prim.dest, Constant(const_map[prim.value.name])))
    ELSE IF prim.prim = "BinOp" /\ Resolve(prim.lhs, const_map).tag = "Some"
                                /\ Resolve(prim.rhs, const_map).tag = "Some"
    THEN LET res == evaluate_binop(prim.op, Resolve(prim.lhs, const_map).v,
                                   Resolve(prim.rhs, const_map).v)
         IN  IF res.tag = "Some" THEN Some(Assign(prim.dest, Constant(res.v))) ELSE res
    ELSE None

\* a try_fold_constant that leaves a BinOp where it folds: dest = result + 0
try_fold_constant_to_sum(prim, const_map) ==
    IF prim.prim = "BinOp" /\ Resolve(prim.lhs, const_map).tag = "Some"
                           /\ Resolve(prim.rhs, const_map).tag = "Some"
    THEN LET res == evaluate_binop(prim.op, Resolve(prim.lhs, const_map).v,
                                   Resolve(prim.rhs, const_map).v)
         IN  IF res.tag = "Some"
             THEN Some(BinOp(prim.dest, Constant(res.v), "+", Constant(0)))
             ELSE res
    ELSE None

\* Some(the folded primitive), None, or Panics when evaluate_binop does not return
try_fold_constant(prim, const_map) ==
    IF prim.prim = "BinOp"
    THEN LET left_val == Resolve(prim.lhs, const_map)
             right_val == Resolve(prim.rhs, const_map)
         IN  IF left_val.tag = "Some" /\ right_val.tag = "Some"
             THEN LET res == evaluate_binop(prim.op, left_val.v, right_val.v)
                  IN  CASE res.tag = "Some" -> Some(Assign(prim.dest, Constant(res.v)))
                        [] res.tag = "None" -> None
                        [] res.tag = "Panics" -> Panics
             ELSE None
    ELSE None

\* the two for loops of one pass, from primitive i of block bi on;
\* p is [blocks, const_map, changed, panicked]
RECURSIVE FoldPass(_, _, _)
FoldPass(p, bi, i) ==
    IF bi > Len(p.blocks) \/ p.panicked THEN p
    ELSE IF i > Len(p.blocks[bi].primitives) THEN FoldPass(p, bi + 1, 1)
    ELSE LET prim == p.blocks[bi].primitives[i]
             const_map == IF prim.prim = "Assign" /\ prim.value.kind = "Constant"
                          THEN Insert(p.const_map, prim.dest, prim.value.c)
                          ELSE p.const_map
             folded == try_fold_constant(prim, const_map)
         IN  CASE folded.tag = "Some" ->
                    FoldPass([blocks |-> [p.blocks EXCEPT ![bi].primitives[i] = folded.v],
                              const_map |-> const_map, changed |-> TRUE,
                              panicked |-> FALSE], bi, i + 1)
               [] folded.tag = "None" -> FoldPass([p EXCEPT !.const_map = const_map], bi, i + 1)
               [] folded.tag = "Panics" -> [p EXCEPT !.panicked = TRUE]

\* a fold_constants that makes one pass and stops
FoldLoopOnce(blocks) ==
    FoldPass([blocks |-> blocks, const_map |-> <<>>, changed |-> FALSE,
              panicked |-> FALSE], 1, 1)

\* while changed { ... }
RECURSIVE FoldLoop(_)
FoldLoop(blocks) ==
    LET p == FoldPass([blocks |-> blocks, const_map |-> <<>>, changed |-> FALSE,
                       panicked |-> FALSE], 1, 1)
    IN  IF p.changed /\ ~p.panicked THEN FoldLoop(p.blocks) ELSE p

\* the function fold_constants leaves, and whether it panicked on the way
fold_constants(f) ==
    LET p == FoldLoop(f.blocks)
    IN  [f |-> [f EXCEPT !.blocks = p.blocks], panicked |-> p.panicked]

(***************************************************************************)
(* cfg.rs: value numbering.  t is the tables of one block:                 *)
(* [expr_to_valnum, var_to_valnum, valnum_to_var, const_to_valnum,         *)
(*  valnum_count].                                                         *)
(***************************************************************************)
NewTables ==
    [expr_to_valnum |-> <<>>, var_to_valnum |-> <<>>, valnum_to_var |-> <<>>,
     const_to_valnum |-> <<>>, valnum_count |-> 0]

\* the value number of val and the tables after the call
get_valnum(val, t) ==
    CASE val.kind = "Variable" ->
            IF val.name \in DOMAIN t.var_to_valnum
            THEN [t |-> t, vn |-> t.var_to_valnum[val.name]]
            ELSE [t |-> [t EXCEPT
                            !.var_to_valnum = Insert(@, val.name, t.valnum_count),
                            !.valnum_to_var = Insert(@, t.valnum_count, val.name)],
                  vn |-> t.valnum_count]
      [] val.kind = "Constant" ->
            IF val.c \in DOMAIN t.const_to_valnum
            THEN [t |-> t, vn |-> t.const_to_valnum[val.c]]
            ELSE [t |-> [t EXCEPT
                            !.valnum_count = @ + 1,
                            !.const_to_valnum = Insert(@, val.c, t.valnum_count)],
                  vn |-> t.valnum_count]
      [] val.kind = "Global" ->
            IF val.name \in DOMAIN t.var_to_valnum
            THEN [t |-> t, vn |-> t.var_to_valnum[val.name]]
            ELSE [t |-> [t EXCEPT
                            !.valnum_count = @ + 1,
                            !.var_to_valnum = Insert(@, val.name, t.valnum_count),
                            !.valnum_to_var = Insert(@, t.valnum_count, val.name)],
                  vn |-> t.valnum_count]

\* the loop over the primitives of one block, from primitive i on;
\* n is [primitives, t, log]: log[i] is the key and the dest value_numbering had
\* in hand at primitive i when it is a BinOp
RECURSIVE NumberPrimitives(_, _)
NumberPrimitives(n, i) ==
    IF i > Len(n.primitives) THEN n
    ELSE LET prim == n.primitives[i]
         IN  CASE prim.prim = "BinOp" ->
                    LET l == get_valnum(prim.lhs, n.t)
                        r == get_valnum(prim.rhs, l.t)
                        expr_key == <<prim.op, l.vn, r.vn>>
                        entry == [key |-> expr_key, dest |-> prim.dest]
                    IN  IF expr_key \in DOMAIN r.t.expr_to_valnum
                        THEN LET existing_vn == r.t.expr_to_valnum[expr_key]
                                 var == r.t.valnum_to_var[existing_vn]
                             IN  NumberPrimitives(
                                    [primitives |-> [n.primitives EXCEPT ![i] =
                                                        Assign(prim.dest, Variable(var))],
                                     t |-> [r.t EXCEPT !.var_to_valnum =
                                                Insert(@, prim.dest, existing_vn)],
                                     log |-> Append(n.log, entry)], i + 1)
                        ELSE LET vn == r.t.valnum_count
                             IN  NumberPrimitives(
                                    [primitives |-> n.primitives,
                                     t |-> [r.t EXCEPT
                                              !.valnum_count = @ + 1,
                                              !.expr_to_valnum = Insert(@, expr_key, vn),
                                              !.var_to_valnum = Insert(@, prim.dest, vn),
                                              !.valnum_to_var = Insert(@, vn, prim.dest)],
                                     log |-> Append(n.log, entry)], i + 1)
               [] prim.prim = "Assign" ->
                    LET v == get_valnum(prim.value, n.t)
                        t1 == [v.t EXCEPT !.var_to_valnum = Insert(@, prim.dest, v.vn)]
                        t2 == IF v.vn \in DOMAIN t1.valnum_to_var THEN t1
                              ELSE [t1 EXCEPT !.valnum_to_var = Insert(@, v.vn, prim.dest)]
                    IN  NumberPrimitives([n EXCEPT !.t = t2,
                                                   !.log = Append(@, [key |-> <<>>, dest |-> ""])],
                                         i + 1)
               [] prim.prim \in {"Load", "Call", "Alloc", "GetElt", "Phi"} ->
                    LET vn == n.t.valnum_count
                    IN  NumberPrimitives(
                            [n EXCEPT !.t = [n.t EXCEPT
                                               !.valnum_count = @ + 1,
                                               !.var_to_valnum = Insert(@, prim.dest, vn),
                                               !.valnum_to_var = Insert(@, vn, prim.dest)],
                                      !.log = Append(@, [key |-> <<>>, dest |-> ""])], i + 1)
               [] OTHER ->
                    NumberPrimitives([n EXCEPT !.log = Append(@, [key |-> <<>>, dest |-> ""])],
                                     i + 1)

NumberBlock(block) ==
    NumberPrimitives([primitives |-> block.primitives, t |-> NewTables, log |-> <<>>], 1)

\* a value_numbering that never stores the Assign it builds
value_numbering_no_store(f) == f

value_numbering(f) ==
    [f EXCEPT !.blocks = [bi \in 1..NumBlocks(f) |->
        [f.blocks[bi] EXCEPT !.primitives = NumberBlock(f.blocks[bi]).primitives]]]

\* per block and primitive, the key and dest of each BinOp as it was reached
ValueNumberingLog(f) == [bi \in 1..NumBlocks(f) |-> NumberBlock(f.blocks[bi]).log]

(***************************************************************************)
(* tokenizer.rs: the Tokenizer.  The text is a sequence of characters, a   *)
(* token a record with its variant in t.                                   *)
(***************************************************************************)
Tokenizer_new(text) == [text |-> text, current |-> 0, cached |-> None]

\* the match on ch of advance_current: the single-character tokens
Symbols ==
    ("(" :> [t |-> "LeftParen"]) @@ (")" :> [t |-> "RightParen"])
    @@ ("{" :> [t |-> "LeftBrace"]) @@ ("}" :> [t |-> "RightBrace"])
    @@ (":" :> [t |-> "Colon"]) @@ ("!" :> [t |-> "Not"]) @@ ("@" :> [t |-> "AtSign"])
    @@ ("^" :> [t |-> "Caret"]) @@ ("&" :> [t |-> "Ampersand"]) @@ ("." :> [t |-> "Dot"])
    @@ ("," :> [t |-> "Comma"]) @@ ("[" :> [t |-> "LeftBracket"])
    @@ ("]" :> [t |-> "RightBracket"])
    @@ ("+" :> [t |-> "Operator", c |-> "+"]) @@ ("-" :> [t |-> "Operator", c |-> "-"])
    @@ ("*" :> [t |-> "Operator", c |-> "*"]) @@ ("/" :> [t |-> "Operator", c |-> "/"])
    @@ ("=" :> [t |-> "Equals"]) @@ ("_" :> [t |-> "Identifier", name |-> "_"])

\* the match on fragment of advance_current: the keywords
Keywords ==
    ("if" :> "If") @@ ("else" :> "Else") @@ ("ifonly" :> "IfOnly") @@ ("while" :> "While")
    @@ ("return" :> "Return") @@ ("print" :> "Print") @@ ("this" :> "This")
    @@ ("class" :> "Class") @@ ("fields" :> "Fields") @@ ("method" :> "Method")
    @@ ("with" :> "With") @@ ("locals" :> "Locals") @@ ("main" :> "Main")

\* char::is_whitespace, is_ascii_digit, is_alphabetic and is_alphanumeric on the
\* characters of the texts
Whitespace == {" "}
Digits ==
    ("0" :> 0) @@ ("1" :> 1) @@ ("2" :> 2) @@ ("3" :> 3) @@ ("4" :> 4) @@ ("5" :> 5)
    @@ ("6" :> 6) @@ ("7" :> 7) @@ ("8" :> 8) @@ ("9" :> 9)
Alphabetic == {"i", "f"}
Alphanumeric == Alphabetic \cup DOMAIN Digits

\* the while loops of advance_current: the first index from i on, counted from 0,
\* whose character is not in class, or the length of the text
RECURSIVE ScanWhile(_, _, _)
ScanWhile(text, i, class) ==
    IF i < Len(text) /\ text[i + 1] \in class THEN ScanWhile(text, i + 1, class) ELSE i

\* &self.text[start..end]
RECURSIVE Slice(_, _, _)
Slice(text, start, end) ==
    IF start >= end THEN "" ELSE text[start + 1] \o Slice(text, start + 1, end)

\* num_str.parse::<i64>() of the digits text[start..end], read after the value acc
RECURSIVE ParseNumber(_, _, _, _)
ParseNumber(text, start, end, acc) ==
    IF start >= end THEN acc
    ELSE ParseNumber(text, start + 1, end, 10 * acc + Digits[text[start + 1]])

\* the token at index c of the text, where a token starts, and the index after it
TokenAt(text, c) ==
    CASE text[c + 1] \in DOMAIN Symbols ->
            [token |-> Symbols[text[c + 1]], current |-> c + 1]
      [] text[c + 1] \in DOMAIN Digits ->
            [token |-> [t |-> "Number",
                        n |-> ParseNumber(text, c, ScanWhile(text, c + 1, DOMAIN Digits), 0)],
             current |-> ScanWhile(text, c + 1, DOMAIN Digits)]
      [] text[c + 1] \in Alphabetic ->
            [token |-> IF Slice(text, c, ScanWhile(text, c + 1, Alphanumeric))
                             \in DOMAIN Keywords
                       THEN [t |-> Keywords[Slice(text, c,
                                                  ScanWhile(text, c + 1, Alphanumeric))]]
                       ELSE [t |-> "Identifier",
                             name |-> Slice(text, c, ScanWhile(text, c + 1, Alphanumeric))],
             current |-> ScanWhile(text, c + 1, Alphanumeric)]
      [] OTHER -> [token |-> Panics, current |-> c]

\* advance_current: the token, and the tokenizer it leaves
advance_current(tz) ==
    LET c == ScanWhile(tz.text, tz.current, Whitespace)
    IN  IF c >= Len(tz.text)
        THEN [token |-> [t |-> "Eof"], tz |-> [tz EXCEPT !.current = c]]
        ELSE [token |-> TokenAt(tz.text, c).token,
              tz |-> [tz EXCEPT !.current = TokenAt(tz.text, c).current]]

\* peek: the token, and the tokenizer it leaves
peek(tz) ==
    IF tz.cached = None
    THEN [token |-> advance_current(tz).token,
          tz |-> [advance_current(tz).tz EXCEPT !.cached = Some(advance_current(tz).token)]]
    ELSE [token |-> tz.cached.v, tz |-> tz]

\* a next that never looks at cached
next_without_cache(tz) == advance_current(tz)

\* next: the token, and the tokenizer it leaves
next(tz) ==
    IF tz.cached # None
    THEN [token |-> tz.cached.v, tz |-> [tz EXCEPT !.cached = None]]
    ELSE advance_current(tz)

(***************************************************************************)
(* The source functions the passes are run on.                             *)
(***************************************************************************)
EConstant(n) == [e |-> "Constant", n |-> n]
EVariable(name) == [e |-> "Variable", name |-> name]
EBinop(lhs, o, rhs) == [e |-> "Binop", lhs |-> lhs, op |-> o, rhs |-> rhs]
EClassRef(class_name) == [e |-> "ClassRef", class_name |-> class_name]
EFieldRead(base, field_name) == [e |-> "FieldRead", base |-> base, field_name |-> field_name]

SAssignment(variable, expression) ==
    [s |-> "Assignment", variable |-> variable, expression |-> expression]
SPrint(expression) == [s |-> "Print", expression |-> expression]
SReturn(expression) == [s |-> "Return", expression |-> expression]
SIf(condition, then_body, else_body) ==
    [s |-> "If", condition |-> condition, then_body |-> then_body, else_body |-> else_body]
SIfOnly(condition, body) == [s |-> "IfOnly", condition |-> condition, body |-> body]
SWhile(condition, body) == [s |-> "While", condition |-> condition, body |-> body]

\* statements without a body, over the variables v and w
SimpleStatements(v, w) ==
    {SAssignment(v, EConstant(1)),
     SAssignment(v, EBinop(EVariable(v), "+", EConstant(1))),
     SAssignment(w, EVariable(v)),
     SPrint(EVariable(v)),
     SReturn(EVariable(v))}

Statements(v, w) ==
    SimpleStatements(v, w)
    \cup {SIf(EVariable(v), <<t>>, <<e>>) :
             t \in SimpleStatements(v, w), e \in SimpleStatements(v, w)}
    \cup {SIfOnly(EVariable(v), <<t>>) : t \in SimpleStatements(v, w)}
    \cup {SWhile(EVariable(v), <<t>>) : t \in SimpleStatements(v, w)}
    \cup {SWhile(EVariable(v), <<SIf(EVariable(v), <<SReturn(EVariable(v))>>,
                                     <<SReturn(EVariable(v))>>)>>)}
    \cup {SIf(EVariable(v), <<SReturn(EVariable(v)), SPrint(EVariable(w))>>,
               <<SPrint(EVariable(v))>>)}

\* the sequences of at most n statements
RECURSIVE Bodies(_, _, _)
Bodies(v, w, n) ==
    IF n = 0 THEN {<<>>}
    ELSE Bodies(v, w, n - 1)
         \cup {Append(b, st) : b \in {q \in Bodies(v, w, n - 1) : Len(q) = n - 1},
                                st \in Statements(v, w)}

\* the bodies of three statements that copy or print this and the argument a
StraightBodies ==
    LET S == {SAssignment("x", EVariable("a")), SPrint(EVariable("this")),
              SPrint(EVariable("a"))}
    IN  {<<s1, s2, s3>> : s1 \in S, s2 \in S, s3 \in S}

\* main with two locals, and the method m(a) of class A with one local
Programs ==
    {[name |-> "main", args |-> <<>>, locals |-> <<"x", "y">>, body |-> stmts] :
        stmts \in Bodies("x", "y", MaxStmts)}
    \cup {[name |-> "mA", args |-> <<"this", "a">>, locals |-> <<"x">>, body |-> stmts] :
        stmts \in Bodies("a", "x", MaxStmts) \cup StraightBodies}

NoFunction == [name |-> "", args |-> <<>>, blocks |-> <<>>]
NoCFG == [num_blocks |-> 0, successors |-> <<>>, predecessors |-> <<>>, dominators |-> <<>>]
NoOrder == [all_blocks |-> <<>>, phis |-> <<>>]

(***************************************************************************)
(* main.rs: the loop body of main for one function.                        *)
(***************************************************************************)
Init ==
    /\ ast \in Programs
    /\ pc = "source"
    /\ function = NoFunction
    /\ cfg = NoCFG
    /\ hashOrder = NoOrder
    /\ vnlog = <<>>
    /\ prefold = NoFunction
    /\ passes = {}
    /\ builder = NewBuilder("")
    /\ todo = <<>>
    /\ op = "" /\ left = 0 /\ right = 0 /\ result = None
    /\ env = <<>> /\ at = <<1, 1>> /\ failure = "" /\ touched = {}
    /\ tokenizer = Tokenizer_new(<<>>) /\ taken = <<>> /\ peeked = None

\* gen_method up to the loop over the body: a fresh current block, the locals set to tagged 0
BeginMethod ==
    /\ pc = "source"
    /\ builder' = InitLocals(NewBuilder(ast.name), ast.locals)
    /\ todo' = ast.body
    /\ pc' = "lowering"
    /\ UNCHANGED <<ast, function, cfg, hashOrder, vnlog, prefold, passes, op, left, right, result, run, lexer>>

\* gen_method: one turn of for statement in &method.body
GenStatement ==
    /\ pc = "lowering"
    /\ todo # <<>>
    /\ builder' = gen_statement(builder, Head(todo))
    /\ todo' = Tail(todo)
    /\ UNCHANGED <<ast, pc, function, cfg, hashOrder, vnlog, prefold, passes, op, left, right, result, run, lexer>>

\* gen_method: self.finish_function(function_name, args)
FinishFunction ==
    /\ pc = "lowering"
    /\ todo = <<>>
    /\ function' = finish_function(builder, ast.name, ast.args)
    /\ pc' = "lowered"
    /\ UNCHANGED <<ast, cfg, hashOrder, vnlog, prefold, passes, builder, todo, op, left, right, result, run, lexer>>

\* CFG::new(function)
NewCFG ==
    /\ pc = "lowered"
    /\ cfg' = CFG_new(function)
    /\ pc' = "cfg"
    /\ UNCHANGED <<ast, function, hashOrder, vnlog, prefold, passes, builder, todo, op, left, right, result, run, lexer>>

\* use_ssa: convert_to_ssa, first statement
ComputeDominatorSets ==
    /\ pc = "cfg"
    /\ LET c == [cfg EXCEPT !.dominators = compute_dominator_sets(cfg)]
       IN  /\ cfg' = c
           /\ \E order \in IterationOrders(c) :
                 hashOrder' = [hashOrder EXCEPT !.all_blocks = order]
    /\ pc' = "dominators"
    /\ UNCHANGED <<ast, function, vnlog, prefold, passes, builder, todo, op, left, right, result, run, lexer>>

ImmediateDominators == compute_immediate_dominators(cfg, hashOrder.all_blocks)

\* convert_to_ssa, second statement; it does not return when a runner walk has no end
InsertPhiFunctions ==
    /\ pc = "dominators"
    /\ IF FrontiersEnd(cfg, ImmediateDominators)
       THEN \E phi_order \in PhiOrders(function,
                               compute_dominance_frontiers(cfg, ImmediateDominators)) :
               /\ function' = insert_phi_functions(cfg, function, phi_order)
               /\ hashOrder' = [hashOrder EXCEPT !.phis = phi_order]
               /\ pc' = "phis"
       ELSE /\ pc' = "hang"
            /\ UNCHANGED <<function, hashOrder>>
    /\ UNCHANGED <<ast, cfg, vnlog, prefold, passes, builder, todo, op, left, right, result, run, lexer>>

\* convert_to_ssa, the rest: build_dominator_tree and rename
Rename ==
    /\ pc = "phis"
    /\ function' = RenameFunction(cfg, function, ImmediateDominators)
    /\ passes' = passes \cup {"ssa"}
    /\ pc' = "ssa"
    /\ UNCHANGED <<ast, cfg, hashOrder, vnlog, prefold, builder, todo, op, left, right, result, run, lexer>>

\* !use_ssa
SkipSSA ==
    /\ pc = "cfg"
    /\ pc' = "ssa"
    /\ UNCHANGED <<ast, function, cfg, hashOrder, vnlog, prefold, passes, builder, todo, op, left, right, result, run, lexer>>

\* use_vn
ValueNumbering ==
    /\ pc = "ssa"
    /\ function' = value_numbering(function)
    /\ vnlog' = ValueNumberingLog(function)
    /\ passes' = passes \cup {"vn"}
    /\ pc' = "vn"
    /\ UNCHANGED <<ast, cfg, hashOrder, prefold, builder, todo, op, left, right, result, run, lexer>>

\* !use_vn
SkipVN ==
    /\ pc = "ssa"
    /\ pc' = "vn"
    /\ UNCHANGED <<ast, function, cfg, hashOrder, vnlog, prefold, passes, builder, todo, op, left, right, result, run, lexer>>

\* use_fold
FoldConstants ==
    /\ pc = "vn"
    /\ LET folded == fold_constants(function)
       IN  /\ function' = folded.f
           /\ pc' = IF folded.panicked THEN "panicked" ELSE "done"
    /\ prefold' = function
    /\ passes' = passes \cup {"fold"}
    /\ UNCHANGED <<ast, cfg, hashOrder, vnlog, builder, todo, op, left, right, result, run, lexer>>

\* !use_fold
SkipFold ==
    /\ pc = "vn"
    /\ pc' = "done"
    /\ UNCHANGED <<ast, function, cfg, hashOrder, vnlog, prefold, passes, builder, todo, op, left, right, result, run, lexer>>

Next ==
    \/ BeginMethod
    \/ GenStatement
    \/ FinishFunction
    \/ NewCFG
    \/ ComputeDominatorSets
    \/ InsertPhiFunctions
    \/ Rename
    \/ SkipSSA
    \/ ValueNumbering
    \/ SkipVN
    \/ FoldConstants
    \/ SkipFold

Spec == Init /\ [][Next]_vars

(***************************************************************************)
(* The properties.  They are stated on the function text alone: the edges  *)
(* are read off the control transfers, dominance is the graph's.           *)
(***************************************************************************)
\* the function as lowering left it
Lowered == finish_function(builder, ast.name, ast.args)

AfterCFG == pc \notin {"source", "lowering", "lowered"}
AfterDominators == cfg.dominators # <<>>
AfterSSA == pc = "ssa" /\ "ssa" \in passes

HasDest(prim) == prim.prim \in {"Assign", "BinOp", "Call", "Phi", "Alloc", "GetElt", "Load"}

Positions(f) ==
    UNION {{<<bi, i>> : i \in 1..Len(f.blocks[bi].primitives)} : bi \in 1..Len(f.blocks)}

PrimAt(f, p) == f.blocks[p[1]].primitives[p[2]]

DestPositions(f) == {p \in Positions(f) : HasDest(PrimAt(f, p))}

\* the labels a control transfer names, in order
Targets(transfer) ==
    IF transfer.ct = "Jump" THEN <<transfer.target>>
    ELSE IF transfer.ct = "Branch" THEN <<transfer.then_lab, transfer.else_lab>>
    ELSE <<>>

Labels(f, indices) == [k \in 1..Len(indices) |-> f.blocks[indices[k]].label]

Count(seq, elem) == Cardinality({k \in 1..Len(seq) : seq[k] = elem})

\* how many edges lead from the block labelled from to the block labelled to
EdgeCount(f, from, to) ==
    Cardinality({e \in (1..Len(f.blocks)) \X (1..2) :
                    /\ f.blocks[e[1]].label = from
                    /\ e[2] <= Len(Targets(f.blocks[e[1]].control_transfer))
                    /\ Targets(f.blocks[e[1]].control_transfer)[e[2]] = to})

BlocksNamed(f, labs) == {bi \in 1..Len(f.blocks) : f.blocks[bi].label \in labs}

\* the blocks some path from the entry reaches without entering block d
RECURSIVE Avoiding(_, _, _)
Avoiding(f, d, reached) ==
    LET more == reached \cup
                    (UNION {BlocksNamed(f, Range(Targets(f.blocks[bi].control_transfer))) :
                               bi \in reached} \ {d})
    IN  IF more = reached THEN reached ELSE Avoiding(f, d, more)

\* every path from the entry to block b enters block d
Dominates(f, d, b) == b \notin Avoiding(f, d, {1} \ {d})

Reachable(f) == Avoiding(f, 0, {1})

\* C1: after convert_to_ssa no two primitives of the function have the same destination
C1_UniqueDestinations ==
    AfterSSA =>
        \A p \in DestPositions(function) : \A q \in DestPositions(function) :
            p # q => PrimAt(function, p).dest # PrimAt(function, q).dest

\* C2: after convert_to_ssa every Phi of a block has as many arguments as the block has
\* incoming edges, and each label occurs among them as often as among the edges' sources
C2_PhiArgsMatchPredecessors ==
    AfterSSA =>
        \A p \in Positions(function) :
            PrimAt(function, p).prim = "Phi" =>
                LET args == PrimAt(function, p).args
                    labs == [k \in 1..Len(args) |-> args[k][1]]
                    here == function.blocks[p[1]].label
                IN  \A bi \in 1..Len(function.blocks) :
                        Count(labs, function.blocks[bi].label)
                            = EdgeCount(function, function.blocks[bi].label, here)

C2_Witness ==
    /\ AfterSSA
    /\ \E p \in Positions(function) :
          /\ PrimAt(function, p).prim = "Phi"
          /\ Len(PrimAt(function, p).args) = 2
          /\ PrimAt(function, p).args[1][2] # PrimAt(function, p).args[2][2]

\* the values a primitive reads, phi arguments apart
Operands(prim) ==
    CASE prim.prim = "Assign" -> {prim.value}
      [] prim.prim = "BinOp" -> {prim.lhs, prim.rhs}
      [] prim.prim = "Call" -> {prim.func, prim.receiver} \cup Range(prim.args)
      [] prim.prim = "Print" -> {prim.val}
      [] prim.prim = "GetElt" -> {prim.arr, prim.idx}
      [] prim.prim = "SetElt" -> {prim.arr, prim.idx, prim.val}
      [] prim.prim = "Load" -> {prim.addr}
      [] prim.prim = "Store" -> {prim.addr, prim.val}
      [] OTHER -> {}

TransferOperands(transfer) ==
    IF transfer.ct = "Branch" THEN {transfer.cond}
    ELSE IF transfer.ct = "Return" THEN {transfer.val}
    ELSE {}

Names(values) == {v.name : v \in {u \in values : u.kind = "Variable"}}

\* a definition of name reaches position i of block bi on every path: a formal, an
\* earlier primitive of the block, or a primitive of another block that dominates bi
DefinedBefore(f, name, bi, i) ==
    \/ name \in Range(f.args)
    \/ \E q \in DestPositions(f) :
          /\ PrimAt(f, q).dest = name
          /\ \/ q[1] = bi /\ q[2] < i
             \/ q[1] # bi /\ Dominates(f, q[1], bi)

AtEnd(f, bi) == Len(f.blocks[bi].primitives) + 1

\* C3: after convert_to_ssa every variable a primitive, a phi argument or a control
\* transfer reads has a definition that dominates the read
C3_UsesAreDominated ==
    AfterSSA =>
        /\ \A p \in Positions(function) :
              LET prim == PrimAt(function, p)
              IN  /\ \A name \in Names(Operands(prim)) :
                         DefinedBefore(function, name, p[1], p[2])
                  /\ prim.prim = "Phi" =>
                         \A k \in 1..Len(prim.args) :
                             \A name \in Names({prim.args[k][2]}) :
                                 \A pb \in BlocksNamed(function, {prim.args[k][1]}) :
                                     DefinedBefore(function, name, pb, AtEnd(function, pb))
        /\ \A bi \in 1..Len(function.blocks) :
              \A name \in Names(TransferOperands(function.blocks[bi].control_transfer)) :
                  DefinedBefore(function, name, bi, AtEnd(function, bi))

\* one run of convert_to_ssa on the lowered function, its iteration orders fixed
ReferenceOrder == CHOOSE order \in IterationOrders(cfg) : TRUE

ReferenceDominators == compute_immediate_dominators(cfg, ReferenceOrder)

ReferenceSSA ==
    LET frontiers == compute_dominance_frontiers(cfg, ReferenceDominators)
        phi_order == CHOOSE q \in PhiOrders(Lowered, frontiers) : TRUE
    IN  RenameFunction(cfg, insert_phi_functions(cfg, Lowered, phi_order),
                       ReferenceDominators)

\* C4: convert_to_ssa gives one result per function: whatever order the hash sets are
\* iterated in, the immediate dominators and the renamed function are those of any other run
C4_Deterministic ==
    AfterSSA =>
        /\ ImmediateDominators = ReferenceDominators
        /\ function = ReferenceSSA

\* C5: the successors CFG::new records for a block are the targets of its control
\* transfer, in order, and the block is a predecessor of each of them
C5_SuccessorsMatchTransfers ==
    AfterCFG =>
        \A b \in 1..Len(function.blocks) :
            /\ Labels(function, cfg.successors[b])
                  = Targets(function.blocks[b].control_transfer)
            /\ \A k \in 1..Len(cfg.successors[b]) :
                  b \in Range(cfg.predecessors[cfg.successors[b][k]])

C5_Witness ==
    /\ pc = "cfg"
    /\ \E b \in 1..Len(function.blocks) :
          /\ function.blocks[b].control_transfer.ct = "Branch"
          /\ Len(cfg.successors[b]) = 2
          /\ cfg.successors[b][1] # cfg.successors[b][2]
    /\ \E b \in 1..Len(function.blocks) : function.blocks[b].control_transfer.ct = "Jump"
    /\ \E b \in 1..Len(function.blocks) : Len(cfg.predecessors[b]) = 2

\* C6: once the dominator sets are computed every block is in its own set and the
\* set of the entry block holds the entry block alone
C6_SelfDomination ==
    AfterDominators =>
        /\ \A b \in 1..cfg.num_blocks : b \in cfg.dominators[b]
        /\ cfg.dominators[1] = {1}

C6_Witness ==
    /\ pc = "dominators"
    /\ \E b \in 2..cfg.num_blocks :
          /\ Len(cfg.predecessors[b]) = 2
          /\ Cardinality(cfg.dominators[b]) >= 2
          /\ cfg.dominators[b] # 1..cfg.num_blocks

AfterVN == pc = "vn" /\ "vn" \in passes
AfterFold == pc = "done" /\ "fold" \in passes

\* C7: a BinOp that value numbering reached with the key of an earlier BinOp of its
\* block is now an Assign of a variable that an earlier primitive of the block defines,
\* and it kept its destination
C7_RepeatedKeyBecomesCopy ==
    AfterVN =>
        \A bi \in 1..Len(function.blocks) :
            \A i \in 1..Len(vnlog[bi]) :
                (/\ vnlog[bi][i].key # <<>>
                 /\ \E j \in 1..(i - 1) : vnlog[bi][j].key = vnlog[bi][i].key)
                => LET now == function.blocks[bi].primitives[i]
                   IN  /\ now.prim = "Assign"
                       /\ now.dest = vnlog[bi][i].dest
                       /\ now.value.kind = "Variable"
                       /\ \E k \in 1..(i - 1) :
                             /\ HasDest(function.blocks[bi].primitives[k])
                             /\ function.blocks[bi].primitives[k].dest = now.value.name

C7_Witness ==
    /\ AfterVN
    /\ \E bi \in 1..Len(function.blocks) :
          \E i \in 1..Len(vnlog[bi]) : \E j \in 1..(i - 1) :
              /\ vnlog[bi][i].key # <<>>
              /\ vnlog[bi][j].key = vnlog[bi][i].key
              /\ function.blocks[bi].primitives[i].prim = "Assign"

\* C8: fold_constants run on its own result changes nothing
C8_FoldIdempotent ==
    AfterFold => fold_constants(function).f = function

\* folding took place, one fold feeding another
C8_Witness ==
    /\ AfterFold
    /\ \E p \in Positions(prefold) : \E q \in Positions(prefold) :
          /\ PrimAt(prefold, p).prim = "BinOp"
          /\ PrimAt(prefold, q).prim = "BinOp"
          /\ PrimAt(prefold, q).lhs = Variable(PrimAt(prefold, p).dest)
          /\ PrimAt(function, p).prim = "Assign"
          /\ PrimAt(function, q).prim = "Assign"

(***************************************************************************)
(* The fold table, on words of WordBits bits.                              *)
(***************************************************************************)
TableWrap(n) == CHOOSE w \in Word : (n - w) % Modulus = 0

\* the quotient rounded towards zero
Quotient(l, r) ==
    CHOOSE q \in (-Modulus)..Modulus :
        LET m == l - q * r
        IN  /\ (IF m < 0 THEN -m ELSE m) < (IF r < 0 THEN -r ELSE r)
            /\ m = 0 \/ (m < 0) = (l < 0)

TableBit(n, k) == (n \div (2 ^ k)) % 2

RECURSIVE Weigh(_, _)
Weigh(bits, k) ==
    IF k = WordBits - 1 THEN -(bits[k] * (2 ^ k))
    ELSE bits[k] * (2 ^ k) + Weigh(bits, k + 1)

TableBitwise(o, l, r) ==
    Weigh([k \in 0..(WordBits - 1) |->
              IF o = "|" THEN (IF TableBit(l, k) = 1 \/ TableBit(r, k) = 1 THEN 1 ELSE 0)
              ELSE IF o = "&" THEN (IF TableBit(l, k) = 1 /\ TableBit(r, k) = 1 THEN 1 ELSE 0)
              ELSE (IF TableBit(l, k) # TableBit(r, k) THEN 1 ELSE 0)], 0)

FoldTable(o, l, r) ==
    CASE o = "+" -> Some(TableWrap(l + r))
      [] o = "-" -> Some(TableWrap(l - r))
      [] o = "*" -> Some(TableWrap(l * r))
      [] o = "/" -> IF r = 0 THEN None ELSE Some(Quotient(l, r))
      [] o \in {"|", "&", "^"} -> Some(TableBitwise(o, l, r))
      [] o = "==" -> Some(IF l = r THEN 1 ELSE 0)
      [] o = "<" -> Some(IF l < r THEN 1 ELSE 0)
      [] o = ">" -> Some(IF l > r THEN 1 ELSE 0)
      [] OTHER -> None

\* the constants some Assign of function f gives to the variable of val, or val's own
AssignedSomewhere(f, val) ==
    IF val.kind = "Constant" THEN {val.c}
    ELSE IF val.kind = "Variable"
    THEN {PrimAt(f, q).value.c :
             q \in {u \in Positions(f) : /\ PrimAt(f, u).prim = "Assign"
                                         /\ PrimAt(f, u).dest = val.name
                                         /\ PrimAt(f, u).value.kind = "Constant"}}
    ELSE {}

\* position q comes before position p in the order of the block list
Precedes(q, p) == q[1] < p[1] \/ (q[1] = p[1] /\ q[2] < p[2])

\* the constant that the last Assign of a Constant to val's variable before position p
\* of f gives it, or val's own
AssignedBefore(f, val, p) ==
    IF val.kind = "Constant" THEN Some(val.c)
    ELSE IF val.kind = "Variable"
    THEN LET before == {u \in Positions(f) : /\ Precedes(u, p)
                                              /\ PrimAt(f, u).prim = "Assign"
                                              /\ PrimAt(f, u).dest = val.name
                                              /\ PrimAt(f, u).value.kind = "Constant"}
         IN  IF before = {} THEN None
             ELSE Some(PrimAt(f, CHOOSE u \in before :
                                     \A w \in before : w = u \/ Precedes(w, u)).value.c)
    ELSE None

\* C9 as claimed: after fold_constants every BinOp whose operands are constants, or
\* variables that some Assign of the function gives a constant, is an Assign of the
\* table's result on such constants, division by 0 apart
C9_FoldsEveryConstantBinOp ==
    AfterFold =>
        \A p \in Positions(prefold) :
            LET prim == PrimAt(prefold, p)
            IN  prim.prim = "BinOp" =>
                    LET ls == AssignedSomewhere(function, prim.lhs)
                        rs == AssignedSomewhere(function, prim.rhs)
                    IN  (ls # {} /\ rs # {} /\ ~(prim.op = "/" /\ 0 \in rs))
                        => \E l \in ls : \E r \in rs :
                               /\ FoldTable(prim.op, l, r).tag = "Some"
                               /\ PrimAt(function, p)
                                     = Assign(prim.dest, Constant(FoldTable(prim.op, l, r).v))

\* C9 amended: after fold_constants every BinOp whose operands are constants, or
\* variables that an Assign earlier in the block list gives a constant, is an Assign of
\* the table's result on the constants last assigned before it, division by 0 apart
C9_FoldsConstantsAssignedBefore ==
    AfterFold =>
        \A p \in Positions(prefold) :
            LET prim == PrimAt(prefold, p)
            IN  prim.prim = "BinOp" =>
                    LET l == AssignedBefore(function, prim.lhs, p)
                        r == AssignedBefore(function, prim.rhs, p)
                    IN  (l.tag = "Some" /\ r.tag = "Some" /\ ~(prim.op = "/" /\ r.v = 0))
                        => /\ FoldTable(prim.op, l.v, r.v).tag = "Some"
                           /\ PrimAt(function, p)
                                 = Assign(prim.dest, Constant(FoldTable(prim.op, l.v, r.v).v))

\* a BinOp on a folded BinOp was folded, and a BinOp on a variable that gets its
\* constant only later was left alone
C9_Witness ==
    /\ AfterFold
    /\ \E p \in Positions(prefold) :
          /\ PrimAt(prefold, p).prim = "BinOp"
          /\ PrimAt(prefold, p).lhs.kind = "Variable"
          /\ AssignedSomewhere(prefold, PrimAt(prefold, p).lhs) = {}
          /\ PrimAt(function, p).prim = "Assign"
    /\ \E p \in Positions(prefold) :
          /\ PrimAt(function, p).prim = "BinOp"
          /\ AssignedSomewhere(function, PrimAt(function, p).lhs) # {}
          /\ AssignedBefore(function, PrimAt(function, p).lhs, p) = None

(***************************************************************************)
(* cfg.rs: evaluate_binop called on its own, on every operator and pair of *)
(* words.                                                                  *)
(***************************************************************************)
Operators == {"+", "-", "*", "/", "|", "&", "^", "==", "<", ">", "!=", "%"}

InitEval ==
    /\ ast = [name |-> "", args |-> <<>>, locals |-> <<>>, body |-> <<>>]
    /\ pc = "call"
    /\ function = NoFunction
    /\ cfg = NoCFG
    /\ hashOrder = NoOrder
    /\ vnlog = <<>>
    /\ prefold = NoFunction
    /\ passes = {}
    /\ builder = NewBuilder("")
    /\ todo = <<>>
    /\ op \in Operators
    /\ left \in Word
    /\ right \in Word
    /\ result = None
    /\ env = <<>> /\ at = <<1, 1>> /\ failure = "" /\ touched = {}
    /\ tokenizer = Tokenizer_new(<<>>) /\ taken = <<>> /\ peeked = None

\* Self::evaluate_binop(op, left, right)
EvaluateBinop ==
    /\ pc = "call"
    /\ result' = evaluate_binop(op, left, right)
    /\ pc' = IF evaluate_binop(op, left, right) = Panics THEN "panicked" ELSE "returned"
    /\ UNCHANGED <<ast, function, cfg, hashOrder, vnlog, prefold, passes, builder, todo,
                   op, left, right, run, lexer>>

NextEval == EvaluateBinop

SpecEval == InitEval /\ [][NextEval]_vars

\* C10: evaluate_binop returns on every operator and pair of words, with the result
\* of the fold table
C10_EvaluateBinopTotal ==
    pc # "call" => /\ pc = "returned"
                   /\ result = FoldTable(op, left, right)

(***************************************************************************)
(* cfg.rs: what fold_constants leaves alone, and what it does with copies. *)
(***************************************************************************)
\* C11: fold_constants changes only BinOp primitives, each into an Assign of a constant
\* to the same destination; the blocks, their labels and control transfers, the number
\* and order of primitives, and every BinOp with an operand that does not resolve or an
\* operator the table declines stay as they were
C11_FoldChangesOnlyBinOps ==
    AfterFold =>
        /\ function.name = prefold.name
        /\ function.args = prefold.args
        /\ Len(function.blocks) = Len(prefold.blocks)
        /\ \A bi \in 1..Len(prefold.blocks) :
              /\ function.blocks[bi].label = prefold.blocks[bi].label
              /\ function.blocks[bi].control_transfer = prefold.blocks[bi].control_transfer
              /\ Len(function.blocks[bi].primitives) = Len(prefold.blocks[bi].primitives)
        /\ \A p \in Positions(prefold) :
              LET was == PrimAt(prefold, p)
                  now == PrimAt(function, p)
                  l == AssignedBefore(function, was.lhs, p)
                  r == AssignedBefore(function, was.rhs, p)
              IN  /\ now # was => /\ was.prim = "BinOp"
                                  /\ now.prim = "Assign"
                                  /\ now.dest = was.dest
                                  /\ now.value.kind = "Constant"
                  /\ (/\ was.prim = "BinOp"
                      /\ \/ l = None
                         \/ r = None
                         \/ FoldTable(was.op, l.v, r.v) = None)
                     => now = was

\* folding rewrote a BinOp and left alone a BinOp on a variable with no constant
C11_Witness ==
    /\ AfterFold
    /\ \E p \in Positions(prefold) :
          /\ PrimAt(prefold, p).prim = "BinOp"
          /\ PrimAt(function, p).prim = "Assign"
    /\ \E p \in Positions(prefold) :
          /\ PrimAt(prefold, p).prim = "BinOp"
          /\ AssignedBefore(function, PrimAt(prefold, p).lhs, p) = None
          /\ PrimAt(function, p) = PrimAt(prefold, p)
    /\ \E p \in Positions(prefold) : PrimAt(prefold, p).prim = "Print"

\* the positions of f whose primitive defines the variable name
Definitions(f, name) ==
    {q \in Positions(f) : HasDest(PrimAt(f, q)) /\ PrimAt(f, q).dest = name}

\* the variable of val has one definition in f, a copy Assign{y, Variable(x)}, and
\* its source x has one definition in f, an Assign of a Constant
CopyOfConstant(f, val) ==
    /\ val.kind = "Variable"
    /\ Cardinality(Definitions(f, val.name)) = 1
    /\ \E q \in Definitions(f, val.name) :
          /\ PrimAt(f, q).prim = "Assign"
          /\ PrimAt(f, q).value.kind = "Variable"
          /\ Cardinality(Definitions(f, PrimAt(f, q).value.name)) = 1
          /\ \E u \in Definitions(f, PrimAt(f, q).value.name) :
                /\ PrimAt(f, u).prim = "Assign"
                /\ PrimAt(f, u).value.kind = "Constant"

\* C12: after fold_constants a BinOp with one operand a Constant and the other a
\* variable that is a copy of a variable assigned a Constant is an Assign of a constant
\* (division by a zero apart)
C12_FoldsThroughCopies ==
    AfterFold =>
        \A p \in Positions(prefold) :
            LET was == PrimAt(prefold, p)
            IN  (/\ was.prim = "BinOp"
                 /\ was.op # "/"
                 /\ \/ CopyOfConstant(function, was.lhs) /\ was.rhs.kind = "Constant"
                    \/ CopyOfConstant(function, was.rhs) /\ was.lhs.kind = "Constant")
                => /\ PrimAt(function, p).prim = "Assign"
                   /\ PrimAt(function, p).value.kind = "Constant"

(***************************************************************************)
(* ir.rs: the execution of a lowered function, as the comments on the      *)
(* primitives and the control transfers describe it.  What memory holds is *)
(* left open: a Load, a GetElt or a Call may yield any value.              *)
(***************************************************************************)
EMethodCall(base, method_name, args) ==
    [e |-> "MethodCall", base |-> base, method_name |-> method_name, args |-> args]
SDiscard(expression) == [s |-> "Discard", expression |-> expression]

\* the statements that read a field of the local v or call a method on it
Dereferences(v, w) ==
    {SPrint(EFieldRead(EVariable(v), "f")),
     SAssignment(w, EFieldRead(EVariable(v), "f")),
     SDiscard(EFieldRead(EVariable(v), "f")),
     SPrint(EMethodCall(EVariable(v), "m", <<>>)),
     SAssignment(w, EMethodCall(EVariable(v), "m", <<EVariable(w)>>)),
     SDiscard(EMethodCall(EVariable(v), "m", <<EConstant(1)>>))}

\* the statements that may come first: they never assign the local v
Preludes(v, w) ==
    {SAssignment(w, EConstant(1)),
     SAssignment(w, EBinop(EVariable(w), "+", EConstant(1))),
     SPrint(EVariable(w)),
     SAssignment(w, EClassRef("A")),
     SIfOnly(EVariable(w), <<SPrint(EVariable(w))>>)}

SFieldWrite(base, field, value) ==
    [s |-> "FieldWrite", base |-> base, field |-> field, value |-> value]

\* main with x, y: at most one statement on y, then a dereference of x;
\* the method m(a) of class A with x: a dereference of the argument a
RunPrograms ==
    {[name |-> "main", args |-> <<>>, locals |-> <<"x", "y">>, body |-> body] :
        body \in {<<d>> : d \in Dereferences("x", "y")}
                 \cup {<<s, d>> : s \in Preludes("x", "y"), d \in Dereferences("x", "y")}}
    \cup {[name |-> "mA", args |-> <<"this", "a">>, locals |-> <<"x">>, body |-> <<d>>] :
             d \in Dereferences("a", "x")
                   \cup {SFieldWrite(EVariable("a"), "f", EConstant(1))}}

\* the addresses alloc may return, and the values memory and calls may yield
Addresses == {8, 16}
MemoryValues == {0, 1, 8}

\* the value of an operand; any is what a variable without a value reads as
ValueOf(val, any) ==
    IF val.kind = "Constant" THEN val.c
    ELSE IF val.kind = "Variable" /\ val.name \in DOMAIN env THEN env[val.name]
    ELSE any

InitRun ==
    /\ ast \in RunPrograms
    /\ pc = "source"
    /\ function = NoFunction
    /\ cfg = NoCFG
    /\ hashOrder = NoOrder
    /\ vnlog = <<>>
    /\ prefold = NoFunction
    /\ passes = {}
    /\ builder = NewBuilder("")
    /\ todo = <<>>
    /\ op = "" /\ left = 0 /\ right = 0 /\ result = None
    /\ env = <<>> /\ at = <<1, 1>> /\ failure = "" /\ touched = {}
    /\ tokenizer = Tokenizer_new(<<>>) /\ taken = <<>> /\ peeked = None

\* the execution enters the first block of the function, its arguments holding
\* whatever the caller passed
Start ==
    /\ pc = "lowered"
    /\ pc' = "running"
    /\ at' = <<1, 1>>
    /\ env' \in [Range(function.args) -> MemoryValues]
    /\ UNCHANGED <<ast, function, cfg, hashOrder, vnlog, prefold, passes, builder, todo,
                   op, left, right, result, failure, touched, lexer>>

\* the primitive at at is executed
ExecutePrimitive ==
    /\ pc = "running"
    /\ at[2] <= Len(function.blocks[at[1]].primitives)
    /\ LET prim == PrimAt(function, at)
       IN  \E address \in Addresses : \E any \in MemoryValues :
              /\ env' = CASE prim.prim = "Assign" ->
                                Insert(env, prim.dest, ValueOf(prim.value, any))
                          [] prim.prim = "BinOp" ->
                                LET res == evaluate_binop(prim.op, ValueOf(prim.lhs, any),
                                                          ValueOf(prim.rhs, any))
                                IN  Insert(env, prim.dest,
                                           IF res.tag = "Some" THEN res.v ELSE any)
                          [] prim.prim = "Alloc" -> Insert(env, prim.dest, address)
                          [] prim.prim \in {"Load", "GetElt", "Call", "Phi"} ->
                                Insert(env, prim.dest, any)
                          [] OTHER -> env
              /\ touched' = CASE prim.prim \in {"GetElt", "SetElt"} -> touched \cup {prim.arr}
                              [] prim.prim = "Load" -> touched \cup {prim.addr}
                              [] OTHER -> touched
    /\ at' = <<at[1], at[2] + 1>>
    /\ UNCHANGED <<ast, pc, function, cfg, hashOrder, vnlog, prefold, passes, builder, todo,
                   op, left, right, result, failure, lexer>>

\* the control transfer of the block at at is executed
ExecuteTransfer ==
    /\ pc = "running"
    /\ at[2] > Len(function.blocks[at[1]].primitives)
    /\ LET transfer == function.blocks[at[1]].control_transfer
       IN  \E any \in MemoryValues :
              CASE transfer.ct = "Jump" ->
                      /\ at' = <<block_map(function, transfer.target), 1>>
                      /\ UNCHANGED <<pc, failure>>
                [] transfer.ct = "Branch" ->
                      /\ at' = <<block_map(function,
                                           IF ValueOf(transfer.cond, any) # 0
                                           THEN transfer.then_lab
                                           ELSE transfer.else_lab), 1>>
                      /\ UNCHANGED <<pc, failure>>
                [] transfer.ct = "Return" ->
                      /\ pc' = "returned"
                      /\ UNCHANGED <<at, failure>>
                [] transfer.ct = "Fail" ->
                      /\ pc' = "failed"
                      /\ failure' = transfer.message
                      /\ UNCHANGED at
    /\ UNCHANGED <<ast, function, cfg, hashOrder, vnlog, prefold, passes, builder, todo,
                   op, left, right, result, env, touched, lexer>>

NextRun ==
    \/ BeginMethod
    \/ GenStatement
    \/ FinishFunction
    \/ Start
    \/ ExecutePrimitive
    \/ ExecuteTransfer

SpecRun == InitRun /\ [][NextRun]_vars

\* C13: the execution of a function that dereferences the local x, which no statement
\* assigns, executes no GetElt and no Load on x, and ends in no other way than a Fail
\* with the message NotAPointer
C13_UnassignedLocalFails ==
    ast.name = "main" =>
        /\ Variable("x") \notin touched
        /\ pc \in {"returned", "failed"} => pc = "failed" /\ failure = "NotAPointer"

\* an execution ended at the Fail of a dereference after it went through a prelude
C13_Witness ==
    /\ ast.name = "main"
    /\ pc = "failed"
    /\ failure = "NotAPointer"
    /\ Len(ast.body) = 2
    /\ Cardinality(DOMAIN env) > 3

(***************************************************************************)
(* ir_builder.rs: the Fail kinds and the object layout that lowering emits *)
(***************************************************************************)
\* C14: every Fail control transfer of a lowered function has the message NotAPointer
C14_OnlyNotAPointer ==
    pc = "lowered" =>
        \A bi \in 1..Len(function.blocks) :
            function.blocks[bi].control_transfer.ct = "Fail"
            => function.blocks[bi].control_transfer.message = "NotAPointer"

\* C15: in a lowered function every Alloc has 1 + |fields(A)| slots, the Store of
\* @vtblA at the object follows it and the next primitive no longer belongs to the
\* class reference, and a field of a source variable is read at the slot 1 + its index
C15_ObjectLayout ==
    pc = "lowered" =>
        \A p \in Positions(function) :
            LET prim == PrimAt(function, p)
                rest == SubSeq(function.blocks[p[1]].primitives, p[2] + 1,
                               Len(function.blocks[p[1]].primitives))
            IN  /\ prim.prim = "Alloc" =>
                      /\ prim.size = 1 + field_count("A")
                      /\ Len(rest) >= 2
                      /\ rest[1] = Store(Variable(prim.dest), Global("vtblA"))
                      /\ rest[2] = Assign("y", Variable(prim.dest))
                /\ (prim.prim = "GetElt" /\ prim.arr = Variable("x"))
                   => prim.idx = Constant(1 + global_field_ids("f"))

(***************************************************************************)
(* tokenizer.rs: a Tokenizer on a short text, called with peek and next in *)
(* any order.                                                              *)
(***************************************************************************)
MaxText == 3

Characters == {"i", "f", "1", " ", "(", "+", "#"}

RECURSIVE Texts(_)
Texts(n) ==
    IF n = 0 THEN {<<>>}
    ELSE Texts(n - 1) \cup {Append(t, c) : t \in Texts(n - 1), c \in Characters}

InitLex ==
    /\ ast = [name |-> "", args |-> <<>>, locals |-> <<>>, body |-> <<>>]
    /\ pc = "lexing"
    /\ function = NoFunction
    /\ cfg = NoCFG
    /\ hashOrder = NoOrder
    /\ vnlog = <<>>
    /\ prefold = NoFunction
    /\ passes = {}
    /\ builder = NewBuilder("")
    /\ todo = <<>>
    /\ op = "" /\ left = 0 /\ right = 0 /\ result = None
    /\ env = <<>> /\ at = <<1, 1>> /\ failure = "" /\ touched = {}
    /\ \E text \in Texts(MaxText) : tokenizer = Tokenizer_new(text)
    /\ taken = <<>>
    /\ peeked = None

\* tok.peek()
Peek ==
    /\ pc = "lexing"
    /\ IF peek(tokenizer).token = Panics
       THEN pc' = "panicked" /\ UNCHANGED <<tokenizer, peeked>>
       ELSE /\ tokenizer' = peek(tokenizer).tz
            /\ peeked' = Some(peek(tokenizer).token)
            /\ pc' = pc
    /\ UNCHANGED <<ast, function, cfg, hashOrder, vnlog, prefold, passes, builder, todo,
                   op, left, right, result, run, taken>>

\* tok.next(), until it has returned Eof
NextToken ==
    /\ pc = "lexing"
    /\ IF taken = <<>> THEN TRUE ELSE taken[Len(taken)].t # "Eof"
    /\ IF next(tokenizer).token = Panics
       THEN pc' = "panicked" /\ UNCHANGED <<tokenizer, taken, peeked>>
       ELSE /\ tokenizer' = next(tokenizer).tz
            /\ taken' = Append(taken, next(tokenizer).token)
            /\ peeked' = None
            /\ pc' = pc
    /\ UNCHANGED <<ast, function, cfg, hashOrder, vnlog, prefold, passes, builder, todo,
                   op, left, right, result, run>>

NextLex == Peek \/ NextToken

SpecLex == InitLex /\ [][NextLex]_vars

\* the tokens that n calls of next alone return on the text, up to a panic
RECURSIVE NextOnly(_, _)
NextOnly(tz, n) ==
    IF n = 0 \/ advance_current(tz).token = Panics THEN <<>>
    ELSE <<advance_current(tz).token>> \o NextOnly(advance_current(tz).tz, n - 1)

\* C16: a peek that follows a peek returns the same token, the next that follows a peek
\* returns the token of the peek, and the tokens that next has returned are the tokens
\* that calls of next alone return on the text
C16_PeekDoesNotConsume ==
    /\ [](taken = NextOnly(Tokenizer_new(tokenizer.text), Len(taken)))
    /\ [][(peeked # None /\ peeked' # None) => peeked' = peeked]_vars
    /\ [][(peeked # None /\ taken' # taken) => taken' = Append(taken, peeked.v)]_vars

\* a token was taken after a peek, and the next one has been peeked at
C16_Witness ==
    /\ Len(taken) = 1
    /\ peeked # None
    /\ tokenizer.cached = peeked
    /\ peeked.v.t = "Identifier"
    /\ tokenizer.current = Len(tokenizer.text)

(***************************************************************************)
(* cfg.rs: the dominator sets, the immediate dominators, the frontiers and *)
(* the phis against their definitions on the graph.                        *)
(***************************************************************************)
AtDominators == pc = "dominators"

\* the blocks that every path from the entry to block b enters
GraphDominators(f, b) == {a \in 1..Len(f.blocks) : Dominates(f, a, b)}

\* C17: the dominator set of every block that the entry reaches is the set of the
\* blocks that every path from the entry to it enters
C17_DominatorSetsAreGraphDominators ==
    AtDominators =>
        \A b \in Reachable(function) : cfg.dominators[b] = GraphDominators(function, b)

\* a reachable join block with a predecessor that the entry does not reach
C17_Witness ==
    /\ AtDominators
    /\ \E b \in Reachable(function) :
          /\ Len(cfg.predecessors[b]) = 2
          /\ Range(cfg.predecessors[b]) \ Reachable(function) # {}
          /\ Cardinality(cfg.dominators[b]) = 2

\* C18: no two strict dominators of a block other than the entry have dominator sets
\* of the same size
C18_NoTiesAmongStrictDominators ==
    AtDominators =>
        \A b \in 2..cfg.num_blocks :
            \A d \in cfg.dominators[b] \ {b} : \A e \in cfg.dominators[b] \ {b} :
                d # e => Cardinality(cfg.dominators[d]) # Cardinality(cfg.dominators[e])

\* a dominates a predecessor of b that the entry reaches and does not strictly
\* dominate b
GraphFrontier(f, a) ==
    {b \in 1..Len(f.blocks) :
        /\ \E p \in Reachable(f) :
              /\ EdgeCount(f, f.blocks[p].label, f.blocks[b].label) > 0
              /\ Dominates(f, a, p)
        /\ ~(a # b /\ Dominates(f, a, b))}

\* C19: the set compute_dominance_frontiers returns for a block that the entry reaches
\* is the set of the blocks b of which the block dominates a predecessor without
\* strictly dominating b
C19_FrontiersAreGraphFrontiers ==
    (AtDominators /\ FrontiersEnd(cfg, ImmediateDominators)) =>
        \A a \in Reachable(function) :
            compute_dominance_frontiers(cfg, ImmediateDominators)[a]
                = GraphFrontier(function, a)

AtPhis == pc = "phis"

\* the blocks of f with an Assign to the variable v
AssigningBlocks(f, v) ==
    {p[1] : p \in {q \in Positions(f) : /\ PrimAt(f, q).prim = "Assign"
                                        /\ PrimAt(f, q).dest = v}}

\* the iterated dominance frontier of the set S of blocks, grown from found
RECURSIVE IteratedFrontier(_, _, _)
IteratedFrontier(f, S, found) ==
    LET more == UNION {GraphFrontier(f, a) : a \in S \cup found}
    IN  IF more \subseteq found THEN found ELSE IteratedFrontier(f, S, found \cup more)

\* the positions of the Phis for v in block b of f
PhisFor(f, b, v) ==
    {i \in 1..Len(f.blocks[b].primitives) :
        /\ f.blocks[b].primitives[i].prim = "Phi"
        /\ f.blocks[b].primitives[i].dest = v}

\* block m of f is the merge of a diamond: two predecessors, each entered from one
\* block only, and that block the same
Diamond(f, m) ==
    /\ Len(cfg.predecessors[m]) = 2
    /\ cfg.predecessors[m][1] # cfg.predecessors[m][2]
    /\ \A k \in 1..2 : Len(cfg.predecessors[cfg.predecessors[m][k]]) = 1
    /\ cfg.predecessors[cfg.predecessors[m][1]] = cfg.predecessors[cfg.predecessors[m][2]]

\* C20: after insert_phi_functions a block has a Phi for v exactly if it is in the
\* iterated dominance frontier of the blocks with an Assign to v, no block has two Phis
\* for one variable, and the merge of a diamond whose two sides assign v has one Phi
\* for v with the labels of the two sides
C20_PhisAtIteratedFrontier ==
    AtPhis =>
        /\ \A b \in 1..Len(function.blocks) : \A v \in AssignedVars(function) :
              /\ PhisFor(function, b, v) # {}
                 <=> b \in IteratedFrontier(function, AssigningBlocks(function, v), {})
              /\ Cardinality(PhisFor(function, b, v)) <= 1
        /\ \A m \in 1..Len(function.blocks) : \A v \in AssignedVars(function) :
              (/\ Diamond(function, m)
               /\ Range(cfg.predecessors[m]) \subseteq AssigningBlocks(function, v))
              => /\ Cardinality(PhisFor(function, m, v)) = 1
                 /\ \A i \in PhisFor(function, m, v) :
                       [k \in 1..2 |-> function.blocks[m].primitives[i].args[k][1]]
                          = Labels(function, cfg.predecessors[m])

(***************************************************************************)
(* Renaming.                                                               *)
(***************************************************************************)
\* the function as insert_phi_functions left it, before renaming
WithPhis == insert_phi_functions(cfg, Lowered, hashOrder.phis)

\* the blocks on the dominator-tree path from the entry to block b, the entry first:
\* the graph dominators of a block that the entry reaches, in the order of dominance
GraphPath(f, b) ==
    LET D == GraphDominators(f, b)
    IN  [k \in 1..Cardinality(D) |->
            CHOOSE d \in D : Cardinality({e \in D : Dominates(f, e, d)}) = k]

\* the path of the tree of build_dominator_tree from block b up to the entry, the
\* entry first; empty when b does not hang under the entry
RECURSIVE TreePath(_, _, _)
TreePath(immediates, b, below) ==
    IF b = 1 THEN <<1>> \o below
    ELSE IF immediates[b] = 0 \/ b \in Range(below) THEN <<>>
    ELSE TreePath(immediates, immediates[b], <<b>> \o below)

DominatorTreePath(f, b) ==
    IF b \in Reachable(f) THEN GraphPath(f, b) ELSE TreePath(ImmediateDominators, b, <<>>)

\* the positions of the definitions of v in the blocks of path, in path order
DefinitionsOn(f, v, path) ==
    {q \in Positions(f) : /\ q[1] \in Range(path)
                          /\ get_dest(PrimAt(f, q))
                          /\ PrimAt(f, q).dest = v}

\* position q comes after position r on path
After(path, q, r) ==
    \/ IndexOf(path, q[1]) > IndexOf(path, r[1])
    \/ q[1] = r[1] /\ q[2] > r[2]

\* the SSA name of the last definition of v on the path, v itself when there is none
LastDefinition(pre, v, path) ==
    LET defs == DefinitionsOn(pre, v, path)
    IN  IF defs = {} THEN v
        ELSE PrimAt(function, CHOOSE q \in defs : \A r \in defs \ {q} : After(path, q, r)).dest

\* C21: after renaming, the argument labelled p of a Phi of the variable v is the SSA
\* name of the last definition of v on the dominator-tree path from the entry to the
\* end of p, and v itself when the path has no definition of v
C21_PhiArgumentsAreLastDefinitions ==
    AfterSSA =>
        LET pre == WithPhis
        IN  \A q \in {r \in Positions(function) : PrimAt(function, r).prim = "Phi"} :
                \A k \in 1..Len(PrimAt(function, q).args) :
                    PrimAt(function, q).args[k][2] =
                        Variable(LastDefinition(
                            pre, PrimAt(pre, q).dest,
                            DominatorTreePath(function, cfg.predecessors[q[1]][k])))

\* a loop header whose Phi has the definition of the entry on the entry edge and the
\* definition of the body on the back edge
C21_Witness ==
    /\ AfterSSA
    /\ \E q \in Positions(function) :
          /\ PrimAt(function, q).prim = "Phi"
          /\ Len(PrimAt(function, q).args) = 2
          /\ cfg.predecessors[q[1]][1] = 1
          /\ q[1] \in GraphDominators(function, cfg.predecessors[q[1]][2])
          /\ \E d \in Positions(function) :
                /\ d[1] = 1
                /\ PrimAt(function, d).prim = "Assign"
                /\ PrimAt(function, q).args[1][2] = Variable(PrimAt(function, d).dest)
          /\ \E d \in Positions(function) :
                /\ d[1] = cfg.predecessors[q[1]][2]
                /\ PrimAt(function, d).prim = "Assign"
                /\ PrimAt(function, q).args[2][2] = Variable(PrimAt(function, d).dest)

(***************************************************************************)
(* The outer loop of fold_constants.                                       *)
(***************************************************************************)
\* the number of BinOp primitives in the blocks
BinOpCount(blocks) ==
    Cardinality({q \in Positions([blocks |-> blocks]) :
                    blocks[q[1]].primitives[q[2]].prim = "BinOp"})

\* one turn of while changed { ... }
OnePass(blocks) ==
    FoldPass([blocks |-> blocks, const_map |-> <<>>, changed |-> FALSE,
              panicked |-> FALSE], 1, 1)

\* the number of turns the loop makes on the blocks, counted up to budget turns
RECURSIVE FoldTurns(_, _)
FoldTurns(blocks, budget) ==
    IF budget = 0 THEN 0
    ELSE IF OnePass(blocks).changed /\ ~OnePass(blocks).panicked
         THEN 1 + FoldTurns(OnePass(blocks).blocks, budget - 1)
         ELSE 1

\* every one of the first budget turns that sets changed leaves fewer BinOps
RECURSIVE TurnsReduce(_, _)
TurnsReduce(blocks, budget) ==
    IF budget = 0 \/ ~OnePass(blocks).changed \/ OnePass(blocks).panicked THEN TRUE
    ELSE /\ BinOpCount(OnePass(blocks).blocks) < BinOpCount(blocks)
         /\ TurnsReduce(OnePass(blocks).blocks, budget - 1)

\* the function fold_constants is about to receive, or has received
FoldInput ==
    IF pc = "vn" THEN {function} ELSE IF AfterFold THEN {prefold} ELSE {}

\* C22: fold_constants ends: every turn of its loop that sets changed leaves fewer
\* BinOps than it found, and the loop makes at most (number of BinOps + 1) turns
C22_FoldTerminates ==
    \A f \in FoldInput :
        /\ TurnsReduce(f.blocks, BinOpCount(f.blocks) + 2)
        /\ FoldTurns(f.blocks, BinOpCount(f.blocks) + 2) <= BinOpCount(f.blocks) + 1

\* fold_constants made a turn that folded and a last turn that did not
C22_Witness ==
    /\ AfterFold
    /\ BinOpCount(function.blocks) < BinOpCount(prefold.blocks)
    /\ FoldTurns(prefold.blocks, BinOpCount(prefold.blocks) + 2) = 2

(***************************************************************************)
(* The check of the base at field and method sites.                        *)
(***************************************************************************)
\* C23: the execution of a method that dereferences its argument a executes no GetElt,
\* SetElt or Load on a when a is 0, and with a equal to 0 it ends at the Fail with the
\* message NotAPointer
C23_ZeroBaseFails ==
    (ast.name = "mA" /\ pc \in {"running", "returned", "failed"} /\ env["a"] = 0) =>
        /\ Variable("a") \notin touched
        /\ pc \in {"returned", "failed"} => pc = "failed" /\ failure = "NotAPointer"

(***************************************************************************)
(* ir_builder.rs: the blocks of an if statement.                           *)
(***************************************************************************)
\* the index of the block of blocks with the label
BlockLabelled(blocks, label) == CHOOSE i \in 1..Len(blocks) : blocks[i].label = label

\* the control transfer the claim gives the block at the end of a branch body
BranchEnd(body, transfer, merge_label) ==
    IF body # <<>> /\ body[Len(body)].s = "Return"
    THEN /\ transfer.ct = "Return"
         /\ body[Len(body)].expression.e = "Variable"
            => transfer.val = Variable(body[Len(body)].expression.name)
    ELSE transfer = Jump(merge_label)

\* C24: gen_statement on an if statement ends the block at the end of each branch with
\* the Return of the branch when the branch ends in a return statement and with a Jump
\* to the merge label otherwise, and leaves the merge block as the current block
C24_IfBranchEnds ==
    [][(GenStatement /\ Head(todo).s = "If") =>
          LET blocks == builder'.current_function_blocks
              branch == blocks[Len(builder.current_function_blocks) + 1].control_transfer
              merge_label == builder'.current_block.label
              then_end == blocks[BlockLabelled(blocks, branch.else_lab) - 1]
              else_end == blocks[Len(blocks)]
          IN  /\ branch.ct = "Branch"
              /\ merge_label \notin {branch.then_lab, branch.else_lab}
              /\ \A i \in 1..Len(blocks) : blocks[i].label # merge_label
              /\ BranchEnd(Head(todo).then_body, then_end.control_transfer, merge_label)
              /\ BranchEnd(Head(todo).else_body, else_end.control_transfer, merge_label)]_vars

(***************************************************************************)
(* ir_builder.rs: the statements that follow a return.                     *)
(***************************************************************************)
\* C29: when the body of a function starts with a return statement, the first block of
\* the lowered function ends in the Return of that statement and holds the primitives
\* emitted before it alone, which are the assignments that initialise the locals
C29_ReturnBlockIsKept ==
    (pc = "lowered" /\ ast.body # <<>> /\ ast.body[1].s = "Return") =>
        /\ function.blocks[1].control_transfer = Return(Variable(ast.body[1].expression.name))
        /\ function.blocks[1].primitives =
              InitLocals(NewBuilder(ast.name), ast.locals).current_block.primitives

(***************************************************************************)
(* Value numbering on blocks in SSA form.                                  *)
(***************************************************************************)
\* the function as convert_to_ssa left it, before value numbering
Renamed == RenameFunction(cfg, WithPhis, ImmediateDominators)

\* the names block bi of f defines or uses
NamesOf(f, bi) ==
    UNION {{prim.dest : prim \in {q \in Range(f.blocks[bi].primitives) : HasDest(q)}},
           Names(UNION {Operands(prim) : prim \in Range(f.blocks[bi].primitives)})}

\* block bi of f is in SSA form: each of its names has one definition at most in f
InSSAForm(f, bi) ==
    \A name \in NamesOf(f, bi) : Cardinality(Definitions(f, name)) <= 1

\* what val is a copy of: the end of the chain of Assigns that defines it
RECURSIVE Root(_, _, _)
Root(f, val, fuel) ==
    IF fuel = 0 \/ val.kind # "Variable" THEN val
    ELSE LET defs == {q \in Definitions(f, val.name) : PrimAt(f, q).prim = "Assign"}
         IN  IF Cardinality(Definitions(f, val.name)) = 1 /\ defs # {}
             THEN Root(f, PrimAt(f, CHOOSE q \in defs : TRUE).value, fuel - 1)
             ELSE val

\* a and b denote the same value: they are copies of one constant or one variable
SameValue(f, a, b) == Root(f, a, Len(f.blocks) + 4) = Root(f, b, Len(f.blocks) + 4)

\* the value number the tables t give the operand val, 0 - 1 when they give none
NumberOf(t, val) ==
    CASE val.kind = "Constant" ->
            IF val.c \in DOMAIN t.const_to_valnum THEN t.const_to_valnum[val.c] ELSE 0 - 1
      [] OTHER ->
            IF val.name \in DOMAIN t.var_to_valnum THEN t.var_to_valnum[val.name] ELSE 0 - 1

\* a BinOp of block bi became a copy of c only where an earlier BinOp of the block
\* defines c with the same operator on the same values
CopiesAreSound(pre, post, bi) ==
    \A i \in 1..Len(pre.blocks[bi].primitives) :
        LET was == pre.blocks[bi].primitives[i]
            now == post.blocks[bi].primitives[i]
        IN  (was.prim = "BinOp" /\ now # was) =>
                /\ now.prim = "Assign" /\ now.dest = was.dest /\ now.value.kind = "Variable"
                /\ \E j \in 1..(i - 1) :
                      LET first == pre.blocks[bi].primitives[j]
                      IN  /\ first.prim = "BinOp"
                          /\ first.dest = now.value.name
                          /\ first.op = was.op
                          /\ SameValue(pre, first.lhs, was.lhs)
                          /\ SameValue(pre, first.rhs, was.rhs)

\* two variables that block bi uses without defining them have different value numbers
FirstSeenDiffer(pre, bi) ==
    LET t == NumberBlock(pre.blocks[bi]).t
        seen == {name \in DOMAIN t.var_to_valnum :
                    \A q \in Definitions(pre, name) : q[1] # bi}
    IN  \A u \in seen : \A v \in seen : u # v => t.var_to_valnum[u] # t.var_to_valnum[v]

\* the destination of a BinOp of block bi that stayed a BinOp has a value number of
\* its own
DestinationsDiffer(pre, post, bi) ==
    LET t == NumberBlock(pre.blocks[bi]).t
    IN  \A i \in 1..Len(pre.blocks[bi].primitives) :
            LET was == pre.blocks[bi].primitives[i]
            IN  (was.prim = "BinOp" /\ post.blocks[bi].primitives[i] = was) =>
                    /\ NumberOf(t, Variable(was.dest)) # NumberOf(t, was.lhs)
                    /\ NumberOf(t, Variable(was.dest)) # NumberOf(t, was.rhs)

\* C25: value numbering of a block in SSA form replaces a BinOp by a copy of c only if
\* an earlier BinOp of the block defines c with the same operator on operands that
\* denote the same values; two variables first seen as operands get different value
\* numbers, and a BinOp destination gets a value number none of its operands has
C25_ValueNumberingSound ==
    (AfterVN /\ "ssa" \in passes) =>
        LET pre == Renamed
        IN  \A bi \in 1..Len(function.blocks) :
                InSSAForm(pre, bi) =>
                    /\ CopiesAreSound(pre, function, bi)
                    /\ FirstSeenDiffer(pre, bi)
                    /\ DestinationsDiffer(pre, function, bi)

(***************************************************************************)
(* Folding without SSA form.                                               *)
(***************************************************************************)
\* the blocks whose start a value of v can reach from the starts of the blocks in
\* starts: a block hands it on when it has no definition of v
RECURSIVE Flow(_, _, _)
Flow(f, v, starts) ==
    LET more == starts \cup
                  UNION {BlocksNamed(f, Range(Targets(f.blocks[b].control_transfer))) :
                            b \in {c \in starts : \A q \in Definitions(f, v) : q[1] # c}}
    IN  IF more = starts THEN starts ELSE Flow(f, v, more)

\* the definition of v at position q reaches position p: some path from q to p has no
\* other definition of v
DefReaches(f, v, q, p) ==
    \/ /\ q[1] = p[1]
       /\ q[2] < p[2]
       /\ \A r \in Definitions(f, v) : ~(r[1] = q[1] /\ q[2] < r[2] /\ r[2] < p[2])
    \/ /\ \A r \in Definitions(f, v) : ~(r[1] = q[1] /\ r[2] > q[2])
       /\ p[1] \in Flow(f, v, BlocksNamed(f, Range(Targets(f.blocks[q[1]].control_transfer))))
       /\ \A r \in Definitions(f, v) : ~(r[1] = p[1] /\ r[2] < p[2])

\* the constant the definition at q gives its destination: that of an Assign of a
\* constant or of a copy of a variable whose one definition is such an Assign
ConstantOf(f, q) ==
    LET prim == PrimAt(f, q)
    IN  IF prim.prim # "Assign" THEN None
        ELSE IF prim.value.kind = "Constant" THEN Some(prim.value.c)
        ELSE IF /\ prim.value.kind = "Variable"
                /\ \E r \in Definitions(f, prim.value.name) :
                      /\ Definitions(f, prim.value.name) = {r}
                      /\ PrimAt(f, r).prim = "Assign"
                      /\ PrimAt(f, r).value.kind = "Constant"
        THEN Some(PrimAt(f, CHOOSE r \in Definitions(f, prim.value.name) : TRUE).value.c)
        ELSE None

\* the constants the operand val holds on every execution that reaches p: one when
\* every definition that reaches p from a block the entry reaches gives it, else none
Held(f, val, p) ==
    IF val.kind = "Constant" THEN {val.c}
    ELSE IF val.kind # "Variable" THEN {}
    ELSE LET given == {ConstantOf(f, q) :
                          q \in {d \in Definitions(f, val.name) :
                                    /\ d[1] \in Reachable(f)
                                    /\ DefReaches(f, val.name, d, p)}}
         IN  IF Cardinality(given) = 1 /\ None \notin given
             THEN {g.v : g \in given} ELSE {}

\* C26: without SSA construction, fold_constants replaces a BinOp that the entry
\* reaches by a constant only if every operand holds one constant on every execution
\* that reaches the BinOp, and the constant is the result for these
C26_FoldWithoutSSA ==
    (AfterFold /\ "ssa" \notin passes) =>
        \A p \in Positions(prefold) :
            (/\ p[1] \in Reachable(function)
             /\ PrimAt(prefold, p).prim = "BinOp"
             /\ PrimAt(function, p) # PrimAt(prefold, p))
            => \E l \in Held(function, PrimAt(prefold, p).lhs, p) :
                  \E r \in Held(function, PrimAt(prefold, p).rhs, p) :
                      evaluate_binop(PrimAt(prefold, p).op, l, r)
                          = Some(PrimAt(function, p).value.c)

(***************************************************************************)
(* Termination of compute_dominance_frontiers.                             *)
(***************************************************************************)
\* C27: compute_dominance_frontiers returns for every function that lowering
\* produces, blocks that the entry does not reach included: every runner walk
\* reaches the immediate dominator of the join block or a block without an
\* immediate dominator
C27_FrontiersTerminate ==
    AtDominators => FrontiersEnd(cfg, ImmediateDominators)

(***************************************************************************)
(* The blocks that rename visits.                                          *)
(***************************************************************************)
\* the blocks on which rename is called, in order, when it is called on idx:
\* idx itself, then the calls for &child in &tree[idx]
RECURSIVE RenameVisits(_, _)
RECURSIVE ChildrenVisits(_, _)

ChildrenVisits(tree, children) ==
    IF children = <<>> THEN <<>>
    ELSE RenameVisits(tree, Head(children)) \o ChildrenVisits(tree, Tail(children))

RenameVisits(tree, idx) == <<idx>> \o ChildrenVisits(tree, tree[idx])

\* C28: the renaming started at the entry is called exactly once on every block of
\* the function, the blocks that the entry does not reach included
C28_RenameVisitsEveryBlock ==
    AtPhis =>
        \A b \in 1..cfg.num_blocks :
            Count(RenameVisits(build_dominator_tree(cfg, ImmediateDominators), 1), b) = 1

(***************************************************************************)
(* ir_builder.rs: integer tagging, undone by the "/" of evaluate_binop.    *)
(***************************************************************************)
\* gen_expression, Expression::Constant(n): the tagged constant
Tagged(n) == 2 * n + 1

\* the integers whose tagged value is a word
Taggable == {n \in Word : Tagged(n) \in Word}

\* C30: for every integer n whose tagged value 2 * n + 1 is in range, negative n
\* included, the division by 2 that constant folding evaluates gives n back
C30_TaggingRoundTrips ==
    (pc = "returned" /\ op = "/" /\ right = 2 /\ \E n \in Taggable : left = Tagged(n)) =>
        \A n \in Taggable : left = Tagged(n) => result = Some(n)
====
